---- MODULE Spec2Model ----
(***************************************************************************)
(* Checkpoint / resume / incremental-write pipeline of the mankan          *)
(* nutrition scraper: CheckpointManager (src/src/checkpoint.py),           *)
(* IncrementalWriter (src/src/incremental_writer.py), SkippedLogger        *)
(* (src/src/skipped_logger.py) and the scrape loop of FastMankanScraper    *)
(* (src/src/scraper_fast.py).                                              *)
(***************************************************************************)
EXTENDS Integers, Sequences, FiniteSets, TLC

(***************************************************************************)
(* Bounds of the model.                                                    *)
(***************************************************************************)
MaxId == 2
MaxLen == 2
MaxCalls == 3

Ids == 1..MaxId

\* The measurement units a page offers (sample texts of the <select> options).
UnitNames == <<"100g", "cup">>

Units == {UnitNames[u] : u \in DOMAIN UnitNames}

MaxUnit == Len(UnitNames)

\* datetime.now().isoformat(), as the environment supplies it.
Times == {"2024-01-01T10:00"}

\* One (item, measurement-unit) row as the scrapers build it.
Row(id, u) == [food_id |-> id, measurement_unit |-> UnitNames[u]]

Rows == {Row(id, u) : id \in Ids, u \in DOMAIN UnitNames}

\* The number of measurement units the page of an item offers.
PageUnits(id) == 1 + (id % MaxUnit)

\* The rows scrape_item(food_id) builds when the page is fetched and read.
ItemRows(id) == [u \in 1..PageUnits(id) |-> Row(id, u)]

BoundedSeq(S, n) == UNION {[1..k -> S] : k \in 0..n}

(***************************************************************************)
(* Files.  A file is absent or holds a sequence of tokens.                 *)
(***************************************************************************)
NoFile == [exists |-> FALSE, content |-> <<>>]

File(toks) == [exists |-> TRUE, content |-> toks]

Prefixes(toks) == {SubSeq(toks, 1, n) : n \in 0..(Len(toks) - 1)}

(***************************************************************************)
(* sorted(): insertion sort of a list of integers, duplicates kept.        *)
(***************************************************************************)
RECURSIVE Insert(_, _)
Insert(x, s) ==
    IF s = <<>> THEN <<x>>
    ELSE IF x <= Head(s) THEN <<x>> \o s
    ELSE <<Head(s)>> \o Insert(x, Tail(s))

RECURSIVE sorted(_)
sorted(s) == IF s = <<>> THEN <<>> ELSE Insert(Head(s), sorted(Tail(s)))

SeqToSet(s) == {s[i] : i \in DOMAIN s}

(***************************************************************************)
(* json.dump / json.load on the token level.                               *)
(***************************************************************************)
NoneVal == "None"

Quote(s) == "\"" \o s

NumRange == 0..(MaxId * MaxUnit + MaxLen + 2)

KnownStrings ==
    {"completed_ids", "data", "last_checkpoint", "total_scraped",
     "food_id", "measurement_unit"}
    \cup {UnitNames[u] : u \in DOMAIN UnitNames}
    \cup Times

NumTokens == {ToString(n) : n \in NumRange}

StrTokens == {Quote(s) : s \in KnownStrings}

IsNum(t) == t \in NumTokens

IsStr(t) == t \in StrTokens

ToNum(t) == CHOOSE n \in NumRange : ToString(n) = t

Unquote(t) == CHOOSE s \in KnownStrings : Quote(s) = t

RECURSIVE DumpInts(_)
DumpInts(s) == IF s = <<>> THEN <<>> ELSE <<ToString(Head(s))>> \o DumpInts(Tail(s))

DumpRow(r) ==
    <<"{", Quote("food_id"), ToString(r.food_id),
      Quote("measurement_unit"), Quote(r.measurement_unit), "}">>

RECURSIVE DumpRows(_)
DumpRows(s) == IF s = <<>> THEN <<>> ELSE DumpRow(Head(s)) \o DumpRows(Tail(s))

\* json.dump(checkpoint_data, temp_file, ...)
JsonDump(cd) ==
    <<"{", Quote("completed_ids"), "[">> \o DumpInts(cd.completed_ids) \o <<"]">>
    \o <<Quote("data"), "[">> \o DumpRows(cd.data) \o <<"]">>
    \o <<Quote("last_checkpoint"),
         IF cd.last_checkpoint = NoneVal THEN "null" ELSE Quote(cd.last_checkpoint)>>
    \o <<Quote("total_scraped"), ToString(cd.total_scraped), "}">>

\* The JSON grammar: the index after the value that starts at i, 0 if none does.
RECURSIVE ParseValue(_, _), ParseElems(_, _), ParseMembers(_, _)
ParseValue(toks, i) ==
    IF i > Len(toks) THEN 0
    ELSE IF toks[i] = "null" \/ IsNum(toks[i]) \/ IsStr(toks[i]) THEN i + 1
    ELSE IF toks[i] = "[" THEN ParseElems(toks, i + 1)
    ELSE IF toks[i] = "{" THEN ParseMembers(toks, i + 1)
    ELSE 0

ParseElems(toks, i) ==
    IF i > Len(toks) THEN 0
    ELSE IF toks[i] = "]" THEN i + 1
    ELSE LET j == ParseValue(toks, i) IN IF j = 0 THEN 0 ELSE ParseElems(toks, j)

ParseMembers(toks, i) ==
    IF i > Len(toks) THEN 0
    ELSE IF toks[i] = "}" THEN i + 1
    ELSE IF ~IsStr(toks[i]) THEN 0
    ELSE LET j == ParseValue(toks, i + 1) IN IF j = 0 THEN 0 ELSE ParseMembers(toks, j)

WellFormed(toks) == ParseValue(toks, 1) = Len(toks) + 1

\* Readers of the values of a well-formed checkpoint document.
RECURSIVE ReadInts(_, _)
ReadInts(toks, i) ==
    IF toks[i] = "]" THEN <<>> ELSE <<ToNum(toks[i])>> \o ReadInts(toks, i + 1)

ReadRow(toks, i) ==
    [food_id |-> ToNum(toks[i + 2]), measurement_unit |-> Unquote(toks[i + 4])]

RECURSIVE ReadRows(_, _)
ReadRows(toks, i) ==
    IF toks[i] = "]" THEN <<>>
    ELSE <<ReadRow(toks, i)>> \o ReadRows(toks, ParseValue(toks, i))

ZeroState ==
    [completed_ids |-> <<>>, data |-> <<>>, last_checkpoint |-> NoneVal,
     total_scraped |-> 0]

RECURSIVE ReadMembers(_, _, _)
ReadMembers(toks, i, acc) ==
    IF toks[i] = "}" THEN acc
    ELSE LET key == Unquote(toks[i])
             nxt == ParseValue(toks, i + 1)
             val == CASE key = "completed_ids" -> ReadInts(toks, i + 2)
                      [] key = "data" -> ReadRows(toks, i + 2)
                      [] key = "last_checkpoint" ->
                            IF toks[i + 1] = "null" THEN NoneVal ELSE Unquote(toks[i + 1])
                      [] OTHER -> ToNum(toks[i + 1])
         IN ReadMembers(toks, nxt, [acc EXCEPT ![key] = val])

\* json.load(f) of a well-formed checkpoint document.
JsonLoad(toks) == ReadMembers(toks, 2, ZeroState)

(***************************************************************************)
(* State.                                                                  *)
(***************************************************************************)
VARIABLES
    checkpoint_file,   \* CheckpointManager.checkpoint_path on disk
    backup_file,       \* its .json.bak sibling
    temp_file,         \* the NamedTemporaryFile of this process's save in progress
    data,              \* CheckpointManager.data
    completed_ids,     \* the caller's list of completed ids
    scraped_data,      \* the caller's list of rows
    pc,                \* position of the process
    save_ret,          \* return value of the save() last called by this process
    load_ret,          \* return value of load() since the files last changed
    now,               \* datetime.now() as read by the save() in progress
    committed,         \* checkpoint_data of the last save() that returned True
    corrupted,         \* whether the primary file was damaged from outside
    crash_pc           \* where the last crash hit

ckvars ==
    <<checkpoint_file, backup_file, temp_file, data, completed_ids, scraped_data,
      pc, save_ret, load_ret, now, committed, corrupted, crash_pc>>

VARIABLES
    pending_data,      \* IncrementalWriter.pending_data
    csv_file,          \* the delimited-text sink on disk
    excel_file,        \* the workbook sink on disk (sheet "Nutritional Data")
    csv_exists,        \* IncrementalWriter.csv_exists
    excel_exists,      \* IncrementalWriter.excel_exists
    wr_last,           \* the last call on the writer and how it ended
    wr_calls           \* calls made on the writer so far

wrvars ==
    <<pending_data, csv_file, excel_file, csv_exists, excel_exists, wr_last, wr_calls>>

VARIABLES
    skipped_items,     \* SkippedLogger.skipped_items
    log_file,          \* the skip ledger on disk
    lg_last,           \* per id, the entry built by the last log_skipped call
    lg_replaced,       \* whether the last call replaced an entry by a different one
    lg_failed          \* whether a write of the ledger file has failed

lgvars == <<skipped_items, log_file, lg_last, lg_replaced, lg_failed>>

VARIABLES
    run_pc,            \* position of the process in main() and scrape_all()
    food_ids_to_scrape,\* the part of scrape_all's list the loop has not reached
    skipped_ids,       \* FastMankanScraper.skipped_ids
    exc,               \* the exception on its way out of scrape_all
    events,            \* the calls made on the way out of scrape_all, in order
    fetched,           \* the ids this process has fetched
    flush_raised,      \* the ids whose add_data call raised in this process
    prev,              \* how the previous process ended, if there was one
    faults             \* failures of the disk so far

runvars ==
    <<run_pc, food_ids_to_scrape, skipped_ids, exc, events, fetched, flush_raised,
      prev, faults>>

VARIABLES
    script,            \* the entry point the process runs
    retry_successful,  \* retry_skipped.py: retry_successful
    retry_failed,      \* retry_skipped.py: retry_failed
    yielded,           \* the ids whose scrape_item call returned rows in this process
    completed          \* ParallelScraper.scrape_all: completed

epvars == <<script, retry_successful, retry_failed, yielded, completed>>

\* The workbook write in steps: the temporary workbook file, whether the file at
\* the workbook path is a complete workbook, and where the writing process stands.
VARIABLES excel_temp, excel_whole, wr_pc

xlvars == <<excel_temp, excel_whole, wr_pc>>

\* The thread pool of the parallel variant: the submitted tasks no thread has
\* taken yet, the tasks running in a thread, and the futures that are done.
VARIABLES task_queue, in_flight, futures_done

auxvars == <<task_queue, in_flight, futures_done>>

\* The batch handed to the data processor and the rows it returned; whether
\* the process was started with --resume.
VARIABLES raw_rows, processed, resume

invars == <<raw_rows, processed, resume>>

vars == <<ckvars, wrvars, lgvars, runvars, epvars, xlvars, auxvars, invars>>

EmptyDict == [empty |-> TRUE]

\* dict.get(key, default)
Get(d, key, default) == IF key \in DOMAIN d THEN d[key] ELSE default

NoResult == [none |-> TRUE]

BadByte == "\\xff"

\* What an external corruption or a cut-off write leaves of a document.
PartialWrites(toks) == {SubSeq(toks, 1, Len(toks) \div 2)}

Garbage == {<<"invalid", "json", "content", "{">>, <<BadByte>>}

(***************************************************************************)
(* CheckpointManager.load                                                  *)
(***************************************************************************)
\* open(path, "r", encoding="utf-8") and json.load(f)
ReadJson(f) ==
    IF \E i \in DOMAIN f.content : f.content[i] = BadByte
    THEN [err |-> "UnicodeDecodeError", val |-> ZeroState]
    ELSE IF ~WellFormed(f.content)
    THEN [err |-> "JSONDecodeError", val |-> ZeroState]
    ELSE [err |-> "none", val |-> JsonLoad(f.content)]

\* Mutant: a failed read of the backup escapes instead of being logged.
try_backup_recovery_raises(bak, d) ==
    LET r == ReadJson(bak)
    IN  IF bak.exists /\ r.err = "none"
        THEN [ret |-> r.val, data |-> r.val, raised |-> FALSE]
        ELSE [ret |-> ZeroState, data |-> d, raised |-> bak.exists]

try_backup_recovery(bak, d) ==
    LET r == ReadJson(bak)
    IN  IF bak.exists /\ r.err = "none"
        THEN [ret |-> r.val, data |-> r.val, raised |-> FALSE]
        ELSE [ret |-> ZeroState, data |-> d, raised |-> FALSE]

load(primary, bak, d) ==
    LET r == ReadJson(primary)
    IN  IF ~primary.exists
        THEN [ret |-> ZeroState, data |-> d, raised |-> FALSE]
        ELSE CASE r.err = "none" -> [ret |-> r.val, data |-> r.val, raised |-> FALSE]
               [] r.err = "JSONDecodeError" -> try_backup_recovery(bak, d)
               [] OTHER -> [ret |-> ZeroState, data |-> d, raised |-> FALSE]

(***************************************************************************)
(* CheckpointManager.save, step by step                                    *)
(***************************************************************************)
Files == [primary |-> checkpoint_file, bak |-> backup_file, tmp |-> temp_file]

SetFiles(fs) ==
    /\ checkpoint_file' = fs.primary
    /\ backup_file' = fs.bak
    /\ temp_file' = fs.tmp

\* shutil.copy2(self.checkpoint_path, backup_path)
save_backup(fs) == IF fs.primary.exists THEN [fs EXCEPT !.bak = fs.primary] ELSE fs

\* Mutant: the row count is taken from the id list.
checkpoint_data_counts_ids(ids, rows, ts) ==
    [completed_ids |-> sorted(ids), data |-> rows, last_checkpoint |-> ts,
     total_scraped |-> Len(ids)]

checkpoint_data(ids, rows, ts) ==
    [completed_ids |-> sorted(ids), data |-> rows, last_checkpoint |-> ts,
     total_scraped |-> Len(rows)]

\* Mutant: the document is written straight to the primary path.
write_in_place(fs, f) == [fs EXCEPT !.primary = f, !.tmp = f]

\* tempfile.NamedTemporaryFile(dir=checkpoint_dir, suffix=".tmp") and the write to it
write_temp(fs, f) == [fs EXCEPT !.tmp = f]

\* Mutant: the rename removes the temporary file and leaves the primary as it was.
save_replace_skipped(fs) == [fs EXCEPT !.tmp = NoFile]

\* os.replace(temp_file.name, self.checkpoint_path)
save_replace(fs) == [fs EXCEPT !.primary = fs.tmp, !.tmp = NoFile]

CurrentData == checkpoint_data(completed_ids, scraped_data, now)

(***************************************************************************)
(* IncrementalWriter.  A writer is the record of its fields and its two    *)
(* sink files; every operation returns the new writer and whether it       *)
(* raised.  fail names the step the environment makes fail in this call:   *)
(* "csv" (to_csv raises), "excel_load" (load_workbook raises),             *)
(* "excel_save" (wb.save or os.replace raises), or "none".                 *)
(***************************************************************************)
batch_size == 2

SinkFailures == {"none", "csv", "excel_load", "excel_save"}

NoSink == [exists |-> FALSE, rows |-> <<>>]

Writer ==
    [pending |-> pending_data, csv |-> csv_file, xlsx |-> excel_file,
     csv_exists |-> csv_exists, excel_exists |-> excel_exists]

SetWriter(w) ==
    /\ pending_data' = w.pending
    /\ csv_file' = w.csv
    /\ excel_file' = w.xlsx
    /\ csv_exists' = w.csv_exists
    /\ excel_exists' = w.excel_exists

\* IncrementalWriter.__init__ over the files found on disk
NewWriter(csv, xlsx) ==
    [pending |-> <<>>, csv |-> csv, xlsx |-> xlsx,
     csv_exists |-> csv.exists, excel_exists |-> xlsx.exists]

\* COLUMNS, lines 28-40: the field names in the order of the sinks' columns.
column_order ==
    <<"food_name", "measurement_unit", "calories", "fat_g", "protein_g", "carbs_g",
      "fiber_g", "sugar_g", "salt_g", "measurement_value", "food_id">>

\* col.endswith('_g') or col == 'calories' or col == 'measurement_value'
numeric_fields ==
    {"calories", "fat_g", "protein_g", "carbs_g", "fiber_g", "sugar_g", "salt_g",
     "measurement_value"}

text_fields == {"food_name", "measurement_unit"}

\* The text of a cell: 0.0 as the float default, the empty cell that to_csv
\* writes for NaN and for None.
ZeroCell == "0.0"
EmptyCell == ""

\* The cell of a value a record carries.
Cell(r, col) == IF col = "food_id" THEN ToString(r[col]) ELSE r[col]

\* pd.DataFrame(data).columns: the union of the records' keys.
frame_columns(batch) == UNION {DOMAIN batch[i] : i \in DOMAIN batch}

\* _append_csv, lines 133-148: a column no record of the batch carries is added
\* with its default; a column some record carries is left as the frame built it,
\* with NaN in the rows of the records that lack it.
csv_rows(batch) ==
    [i \in DOMAIN batch |->
        [c \in DOMAIN column_order |->
            LET col == column_order[c]
            IN  IF col \notin frame_columns(batch)
                THEN IF col \in numeric_fields THEN ZeroCell ELSE EmptyCell
                ELSE IF col \in DOMAIN batch[i] THEN Cell(batch[i], col)
                ELSE EmptyCell]]

\* _append_excel, lines 223-233: row_data.get(field) with the default per row.
excel_rows(batch) ==
    [i \in DOMAIN batch |->
        [c \in DOMAIN column_order |->
            LET col == column_order[c]
                value == IF col \in DOMAIN batch[i] THEN Cell(batch[i], col) ELSE NoneVal
            IN  IF col \in numeric_fields
                THEN IF value = NoneVal THEN ZeroCell ELSE value
                ELSE IF value = NoneVal THEN EmptyCell ELSE value]]

append_csv(w, rows, fail) ==
    IF rows = <<>> THEN [w |-> w, raised |-> FALSE]
    ELSE IF fail = "csv" THEN [w |-> w, raised |-> TRUE]
    ELSE [w |-> [w EXCEPT
                   !.csv = [exists |-> TRUE,
                            rows |-> IF w.csv_exists THEN w.csv.rows \o csv_rows(rows)
                                     ELSE csv_rows(rows)],
                   !.csv_exists = TRUE],
          raised |-> FALSE]

append_excel(w, rows, fail) ==
    IF rows = <<>> THEN [w |-> w, raised |-> FALSE]
    ELSE LET kept == IF w.excel_exists /\ w.xlsx.exists /\ fail # "excel_load"
                     THEN w.xlsx.rows ELSE <<>>
         IN  IF fail = "excel_save" THEN [w |-> w, raised |-> TRUE]
             ELSE [w |-> [w EXCEPT !.xlsx = [exists |-> TRUE,
                                            rows |-> kept \o excel_rows(rows)],
                                   !.excel_exists = TRUE],
                   raised |-> FALSE]

\* Mutant: the buffer is emptied before the sinks are written.
flush_clears_first(w, fail) ==
    IF w.pending = <<>> THEN [w |-> w, raised |-> FALSE]
    ELSE LET a == append_csv(w, w.pending, fail)
             b == append_excel(a.w, w.pending, fail)
         IN  IF a.raised THEN [w |-> [a.w EXCEPT !.pending = <<>>], raised |-> TRUE]
             ELSE [w |-> [b.w EXCEPT !.pending = <<>>], raised |-> b.raised]

flush(w, fail) ==
    IF w.pending = <<>> THEN [w |-> w, raised |-> FALSE]
    ELSE LET a == append_csv(w, w.pending, fail)
             b == append_excel(a.w, w.pending, fail)
         IN  IF a.raised THEN [w |-> a.w, raised |-> TRUE]
             ELSE IF b.raised THEN [w |-> b.w, raised |-> TRUE]
             ELSE [w |-> [b.w EXCEPT !.pending = <<>>], raised |-> FALSE]

\* Mutant: the buffer is flushed only once it holds more than batch_size records.
add_data_flushes_late(w, rows, fail) ==
    LET w1 == [w EXCEPT !.pending = @ \o rows]
    IN  IF Len(w1.pending) > batch_size THEN flush(w1, fail)
        ELSE [w |-> w1, raised |-> FALSE]

add_data(w, rows, fail) ==
    LET w1 == [w EXCEPT !.pending = @ \o rows]
    IN  IF Len(w1.pending) >= batch_size THEN flush(w1, fail)
        ELSE [w |-> w1, raised |-> FALSE]

\* finalize(): the summary sheet is rebuilt inside its own try/except and does not
\* touch the data sheet.
finalize(w, fail) == IF w.pending # <<>> THEN flush(w, fail) ELSE [w |-> w, raised |-> FALSE]

\* Whether a call that flushes buffer buf under fail meets a failing sink write.
SinkWriteFails(buf, fail) == buf # <<>> /\ fail \in {"csv", "excel_save"}

(***************************************************************************)
(* SkippedLogger.                                                          *)
(***************************************************************************)
NoLog == [exists |-> FALSE, items |-> <<>>]

\* The exceptions handed to log_skipped.
Errors == {[type |-> "TimeoutError", msg |-> "Timeout 8000ms exceeded"]}

NoError == [type |-> NoneVal, msg |-> NoneVal]

\* The argument lists of log_skipped: error, error_message, reason.
LogCalls ==
    {[error |-> NoError, error_message |-> "No data extracted from page",
      reason |-> "no_data"]}
    \cup {[error |-> e, error_message |-> NoneVal, reason |-> "exception"] : e \in Errors}
    \cup {[error |-> NoError, error_message |-> "Retry failed: no data",
           reason |-> "retry_failed"],
          [error |-> NoError, error_message |-> NoneVal, reason |-> NoneVal]}

\* Python's `a or b` on strings and None.
Or(a, b) == IF a = NoneVal \/ a = "" THEN b ELSE a

\* log_skipped, lines 76-109: the entry built from the arguments.
skipped_entry(food_id, c) ==
    LET error_type == IF c.error # NoError THEN c.error.type
                      ELSE IF Or(c.error_message, NoneVal) # NoneVal THEN "Unknown"
                      ELSE NoneVal
        error_msg == IF c.error # NoError THEN c.error.msg
                     ELSE IF Or(c.error_message, NoneVal) # NoneVal THEN c.error_message
                     ELSE NoneVal
    IN  [food_id |-> food_id,
         error_type |-> Or(error_type, "Unknown"),
         error_message |-> Or(error_msg, Or(c.error_message, "No error details")),
         reason |-> Or(c.reason, "unknown"),
         traceback |-> IF c.error # NoError THEN c.error.type ELSE ""]

\* The first index holding food_id, 0 if none (lines 95-99).
existing_index(items, food_id) ==
    IF \E i \in DOMAIN items : items[i].food_id = food_id
    THEN CHOOSE i \in DOMAIN items :
            /\ items[i].food_id = food_id
            /\ \A j \in 1..(i - 1) : items[j].food_id # food_id
    ELSE 0

\* Mutant: the entry is always appended.
upsert_appends(items, entry) == Append(items, entry)

\* Lines 111-117: replace the existing entry or append.
upsert(items, entry) ==
    IF existing_index(items, entry.food_id) # 0
    THEN [items EXCEPT ![existing_index(items, entry.food_id)] = entry]
    ELSE Append(items, entry)

\* SkippedLogger._save: atomic replace of the log file; a failure raises.
ledger_save(items, file, fail) ==
    IF fail THEN [file |-> file, raised |-> TRUE]
    ELSE [file |-> [exists |-> TRUE, items |-> items], raised |-> FALSE]

log_skipped(items, file, food_id, c, fail) ==
    LET new == upsert(items, skipped_entry(food_id, c))
        sv == ledger_save(new, file, fail)
    IN  [items |-> new, file |-> sv.file, raised |-> sv.raised]

RECURSIVE Without(_, _)
Without(items, food_id) ==
    IF items = <<>> THEN <<>>
    ELSE IF Head(items).food_id = food_id THEN Without(Tail(items), food_id)
    ELSE <<Head(items)>> \o Without(Tail(items), food_id)

remove_skipped(items, file, food_id, fail) ==
    LET new == Without(items, food_id)
        sv == ledger_save(new, file, fail)
    IN  IF Len(new) < Len(items)
        THEN [items |-> new, file |-> sv.file, raised |-> sv.raised, ret |-> ~sv.raised]
        ELSE [items |-> new, file |-> file, raised |-> FALSE, ret |-> FALSE]

\* SkippedLogger._load_existing
load_existing(file) == IF file.exists THEN file.items ELSE <<>>

LedgerIds(items) == {items[i].food_id : i \in DOMAIN items}

(***************************************************************************)
(* Actions of the checkpoint store.  save() is split at the points where   *)
(* a failure or a crash can separate its steps.                            *)
(***************************************************************************)
SaveBegin ==
    /\ pc = "idle"
    /\ pc' = "save_backup"
    /\ now' \in Times
    /\ save_ret' = "pending"
    /\ load_ret' = NoResult
    /\ UNCHANGED <<checkpoint_file, backup_file, temp_file, data, completed_ids,
                   scraped_data, committed, corrupted, crash_pc>>
    /\ UNCHANGED <<wrvars, lgvars, runvars, epvars, xlvars, auxvars, invars>>

SaveBackup ==
    /\ pc = "save_backup"
    /\ SetFiles(save_backup(Files))
    /\ pc' = "save_write"
    /\ UNCHANGED <<data, completed_ids, scraped_data, save_ret, load_ret, now,
                   committed, corrupted, crash_pc>>
    /\ UNCHANGED <<wrvars, lgvars, runvars, epvars, xlvars, auxvars, invars>>

\* copy2 raises: the except clause of save() returns False.
SaveBackupFail ==
    /\ pc = "save_backup"
    /\ checkpoint_file.exists
    /\ \E b \in {backup_file} \cup {File(t) : t \in PartialWrites(checkpoint_file.content)} :
            backup_file' = b
    /\ pc' = "idle"
    /\ save_ret' = "False"
    /\ now' = NoneVal
    /\ UNCHANGED <<checkpoint_file, temp_file, data, completed_ids, scraped_data,
                   load_ret, committed, corrupted, crash_pc>>
    /\ UNCHANGED <<wrvars, lgvars, runvars, epvars, xlvars, auxvars, invars>>

SaveWrite ==
    /\ pc = "save_write"
    /\ SetFiles(write_temp(Files, File(JsonDump(CurrentData))))
    /\ pc' = "save_replace"
    /\ UNCHANGED <<data, completed_ids, scraped_data, save_ret, load_ret, now,
                   committed, corrupted, crash_pc>>
    /\ UNCHANGED <<wrvars, lgvars, runvars, epvars, xlvars, auxvars, invars>>

\* NamedTemporaryFile or json.dump raises: save() returns False.  What was written
\* stays on disk under a name no later call uses, so it leaves the model.
SaveWriteFail ==
    /\ pc = "save_write"
    /\ SetFiles([Files EXCEPT !.tmp = NoFile])
    /\ pc' = "idle"
    /\ save_ret' = "False"
    /\ now' = NoneVal
    /\ UNCHANGED <<data, completed_ids, scraped_data, load_ret, committed,
                   corrupted, crash_pc>>
    /\ UNCHANGED <<wrvars, lgvars, runvars, epvars, xlvars, auxvars, invars>>

SaveReplace ==
    /\ pc = "save_replace"
    /\ SetFiles(save_replace(Files))
    /\ data' = CurrentData
    /\ committed' = CurrentData
    /\ pc' = "idle"
    /\ save_ret' = "True"
    /\ now' = NoneVal
    /\ UNCHANGED <<completed_ids, scraped_data, load_ret, corrupted, crash_pc>>
    /\ UNCHANGED <<wrvars, lgvars, runvars, epvars, xlvars, auxvars, invars>>

\* os.replace raises: nothing is renamed, save() returns False.
SaveReplaceFail ==
    /\ pc = "save_replace"
    /\ pc' = "idle"
    /\ save_ret' = "False"
    /\ now' = NoneVal
    /\ temp_file' = NoFile
    /\ UNCHANGED <<checkpoint_file, backup_file, data, completed_ids,
                   scraped_data, load_ret, committed, corrupted, crash_pc>>
    /\ UNCHANGED <<wrvars, lgvars, runvars, epvars, xlvars, auxvars, invars>>

Load ==
    /\ pc = "idle"
    /\ LET l == load(checkpoint_file, backup_file, data)
       IN  load_ret' = l.ret /\ data' = l.data
    /\ UNCHANGED <<checkpoint_file, backup_file, temp_file, completed_ids, scraped_data,
                   pc, save_ret, now, committed, corrupted, crash_pc>>
    /\ UNCHANGED <<wrvars, lgvars, runvars, epvars, xlvars, auxvars, invars>>

\* The process is killed.  A copy or a write that was under way is cut off.
Crash ==
    /\ pc \in {"idle", "save_backup", "save_write", "save_replace"}
    /\ \/ UNCHANGED <<checkpoint_file, backup_file, temp_file>>
       \/ /\ pc = "save_backup"
          /\ checkpoint_file.exists
          /\ \E t \in PartialWrites(checkpoint_file.content) : backup_file' = File(t)
          /\ UNCHANGED <<checkpoint_file, temp_file>>
       \/ /\ pc = "save_write"
          /\ \E t \in PartialWrites(JsonDump(CurrentData)) :
                /\ temp_file' = write_temp(Files, File(t)).tmp
                /\ checkpoint_file' = write_temp(Files, File(t)).primary
          /\ UNCHANGED backup_file
    /\ crash_pc' = pc
    /\ pc' = "crashed"
    /\ UNCHANGED <<data, completed_ids, scraped_data, save_ret,
                   load_ret, now, committed, corrupted>>
    /\ UNCHANGED <<wrvars, lgvars, runvars, epvars, xlvars, auxvars, invars>>

\* A new process: CheckpointManager() and the load of the scraper's constructor.
Restart ==
    /\ pc = "crashed"
    /\ pc' = "idle"
    /\ LET l == load(checkpoint_file, backup_file, EmptyDict)
       IN  /\ data' = l.data
           /\ load_ret' = l.ret
           /\ completed_ids' = Get(l.ret, "completed_ids", <<>>)
           /\ scraped_data' = Get(l.ret, "data", <<>>)
    /\ save_ret' = "None"
    /\ temp_file' = NoFile
    /\ crash_pc' = "none"
    /\ now' = NoneVal
    /\ UNCHANGED <<checkpoint_file, backup_file, committed, corrupted>>
    /\ UNCHANGED <<wrvars, lgvars, runvars, epvars, xlvars, auxvars, invars>>

\* The primary file is damaged from outside the program (once per behaviour).
Corrupt ==
    /\ pc \in {"idle", "crashed"}
    /\ ~corrupted
    /\ checkpoint_file.exists
    /\ \E t \in Garbage \cup PartialWrites(checkpoint_file.content) :
            checkpoint_file' = File(t)
    /\ corrupted' = TRUE
    /\ load_ret' = NoResult
    /\ UNCHANGED <<backup_file, temp_file, data, completed_ids, scraped_data, pc,
                   save_ret, now, committed, crash_pc>>
    /\ UNCHANGED <<wrvars, lgvars, runvars, epvars, xlvars, auxvars, invars>>

\* The caller completes one more identifier (scrape_all, lines 410-411).
Complete ==
    /\ pc = "idle"
    /\ \E id \in Ids \ SeqToSet(completed_ids) :
            /\ completed_ids' = Append(completed_ids, id)
            /\ scraped_data' = scraped_data \o ItemRows(id)
    /\ UNCHANGED <<checkpoint_file, backup_file, temp_file, data, pc, save_ret,
                   load_ret, now, committed, corrupted, crash_pc>>
    /\ UNCHANGED <<wrvars, lgvars, runvars, epvars, xlvars, auxvars, invars>>

WrInit ==
    /\ pending_data = <<>>
    /\ csv_file = NoSink
    /\ excel_file = NoSink
    /\ csv_exists = FALSE
    /\ excel_exists = FALSE
    /\ wr_last = NoResult
    /\ wr_calls = 0
    /\ excel_temp = NoSink
    /\ excel_whole = TRUE
    /\ wr_pc = "idle"

LgInit ==
    /\ skipped_items = <<>>
    /\ log_file = NoLog
    /\ lg_last = [id \in Ids |-> NoResult]
    /\ lg_replaced = FALSE
    /\ lg_failed = FALSE

RunInit ==
    /\ run_pc = "init"
    /\ food_ids_to_scrape = <<>>
    /\ skipped_ids = <<>>
    /\ exc = "none"
    /\ events = <<>>
    /\ fetched = {}
    /\ flush_raised = {}
    /\ prev = NoResult
    /\ faults = 0
    /\ script = "main"
    /\ retry_successful = <<>>
    /\ retry_failed = <<>>
    /\ yielded = {}
    /\ completed = <<>>
    /\ task_queue = <<>> /\ in_flight = {} /\ futures_done = {}
    /\ raw_rows = <<>> /\ processed = <<>> /\ resume = FALSE

CkInit ==
    /\ checkpoint_file = NoFile
    /\ backup_file = NoFile
    /\ temp_file = NoFile
    /\ data = EmptyDict
    /\ pc = "idle"
    /\ save_ret = "None"
    /\ load_ret = NoResult
    /\ now = NoneVal
    /\ committed = NoResult
    /\ corrupted = FALSE
    /\ crash_pc = "none"

\* The checkpoint store under saves, loads, crashes and corruption.
InitCkpt == CkInit /\ WrInit /\ LgInit /\ RunInit /\ completed_ids = <<>> /\ scraped_data = <<>>

NextCkpt ==
    \/ SaveBegin \/ SaveBackup \/ SaveBackupFail \/ SaveWrite \/ SaveWriteFail
    \/ SaveReplace \/ SaveReplaceFail \/ Load \/ Crash \/ Restart \/ Corrupt
    \/ Complete

SpecCkpt == InitCkpt /\ [][NextCkpt]_vars

\* One save() of arbitrary lists, then load().
InitRoundTrip ==
    /\ CkInit
    /\ WrInit
    /\ LgInit
    /\ RunInit
    /\ completed_ids \in BoundedSeq(Ids, MaxLen)
    /\ scraped_data \in BoundedSeq(Rows, MaxLen)

NextRoundTrip ==
    \/ SaveBegin \/ SaveBackup \/ SaveBackupFail \/ SaveWrite \/ SaveWriteFail
    \/ SaveReplace \/ SaveReplaceFail \/ Load

SpecRoundTrip == InitRoundTrip /\ [][NextRoundTrip]_vars

(***************************************************************************)
(* The writer on its own: calls of add_data, flush and finalize with the   *)
(* environment failing any sink step, and a new writer over the same files.*)
(***************************************************************************)
WrCall(op, buf, attempted, fail, r) ==
    /\ SetWriter(r.w)
    /\ wr_last' = [op |-> op, buffer |-> buf, fail |-> fail, raised |-> r.raised,
                   failed |-> attempted /\ SinkWriteFails(buf, fail)]
    /\ wr_calls' = wr_calls + 1

AddData ==
    /\ wr_calls < MaxCalls
    /\ \E id \in Ids, fail \in SinkFailures :
            WrCall("add_data", pending_data \o ItemRows(id),
                   Len(pending_data \o ItemRows(id)) >= batch_size, fail,
                   add_data(Writer, ItemRows(id), fail))
    /\ UNCHANGED <<ckvars, lgvars, runvars, epvars, xlvars, auxvars, invars>>

Flush ==
    /\ wr_calls < MaxCalls
    /\ \E fail \in SinkFailures :
            WrCall("flush", pending_data, TRUE, fail, flush(Writer, fail))
    /\ UNCHANGED <<ckvars, lgvars, runvars, epvars, xlvars, auxvars, invars>>

Finalize ==
    /\ wr_calls < MaxCalls
    /\ \E fail \in SinkFailures :
            WrCall("finalize", pending_data, TRUE, fail, finalize(Writer, fail))
    /\ UNCHANGED <<ckvars, lgvars, runvars, epvars, xlvars, auxvars, invars>>

\* A new process constructs its writer over the files on disk.
Reopen ==
    /\ wr_last # NoResult
    /\ SetWriter(NewWriter(csv_file, excel_file))
    /\ wr_last' = NoResult
    /\ UNCHANGED <<wr_calls, ckvars, lgvars, runvars, epvars, xlvars, auxvars, invars>>

InitWriter == CkInit /\ WrInit /\ LgInit /\ RunInit /\ completed_ids = <<>> /\ scraped_data = <<>>

NextWriter == AddData \/ Flush \/ Finalize \/ Reopen

SpecWriter == InitWriter /\ [][NextWriter]_vars

(***************************************************************************)
(* The writer fed with records of different key sets: every record carries *)
(* food_id and measurement_unit, and any of the optional fields.           *)
(***************************************************************************)
OptionalFields == {"food_name", "calories"}

FieldValue(f) ==
    IF f = "food_id" THEN 1
    ELSE IF f = "measurement_unit" THEN UnitNames[1]
    ELSE IF f = "food_name" THEN "apple"
    ELSE "52.0"

Records ==
    {[f \in {"food_id", "measurement_unit"} \cup K |-> FieldValue(f)] :
        K \in SUBSET OptionalFields}

AddRecords ==
    /\ wr_calls < MaxCalls
    /\ \E batch \in BoundedSeq(Records, MaxLen) \ {<<>>}, fail \in SinkFailures :
            WrCall("add_data", pending_data \o batch,
                   Len(pending_data \o batch) >= batch_size, fail,
                   add_data(Writer, batch, fail))
    /\ UNCHANGED <<ckvars, lgvars, runvars, epvars, xlvars, auxvars, invars>>

NextColumns == AddRecords \/ Flush \/ Reopen

SpecColumns == InitWriter /\ [][NextColumns]_vars

(***************************************************************************)
(* The writes of the workbook file in steps, with the process killed at    *)
(* any point of a write and a new process started over the files on disk.  *)
(***************************************************************************)
\* load_workbook(excel_path) on the file as it is on disk.
WorkbookLoad == IF excel_whole THEN "none" ELSE "excel_load"

\* _append_excel, lines 191-274: the workbook is loaded or created, the rows are
\* written into it and it is saved to a temporary file in the output directory.
AppendTemp ==
    /\ wr_pc = "idle"
    /\ wr_calls < MaxCalls
    /\ \E id \in Ids :
            LET r == append_excel(Writer, ItemRows(id), WorkbookLoad)
            IN  /\ excel_temp' = r.w.xlsx
                /\ wr_last' = [op |-> "append", buffer |-> ItemRows(id),
                               fail |-> WorkbookLoad, raised |-> FALSE, failed |-> FALSE]
    /\ wr_pc' = "append_replace"
    /\ wr_calls' = wr_calls + 1
    /\ UNCHANGED <<pending_data, csv_file, excel_file, csv_exists, excel_exists, excel_whole>>
    /\ UNCHANGED <<ckvars, lgvars, runvars, epvars, auxvars, invars>>

\* os.replace(temp_path, self.excel_path), lines 276-282
AppendReplace ==
    /\ wr_pc = "append_replace"
    /\ excel_file' = excel_temp
    /\ excel_temp' = NoSink
    /\ excel_whole' = TRUE
    /\ excel_exists' = TRUE
    /\ wr_pc' = "idle"
    /\ UNCHANGED <<pending_data, csv_file, csv_exists, wr_last, wr_calls>>
    /\ UNCHANGED <<ckvars, lgvars, runvars, epvars, auxvars, invars>>

\* finalize() -> _update_summary_sheet, lines 303-374: the workbook is loaded,
\* the summary sheet rebuilt, and wb.save(self.excel_path) opens the workbook
\* path itself for writing.  A workbook that cannot be loaded is left alone.
SummarySaveBegin ==
    /\ wr_pc = "idle"
    /\ excel_exists
    /\ excel_whole
    /\ excel_whole' = FALSE
    /\ wr_pc' = "summary_save"
    /\ wr_last' = [op |-> "summary", buffer |-> <<>>, fail |-> "none",
                   raised |-> FALSE, failed |-> FALSE]
    /\ UNCHANGED <<pending_data, csv_file, excel_file, csv_exists, excel_exists,
                   wr_calls, excel_temp>>
    /\ UNCHANGED <<ckvars, lgvars, runvars, epvars, auxvars, invars>>

\* wb.save(self.excel_path) writes the last byte and closes the file.
SummarySaveEnd ==
    /\ wr_pc = "summary_save"
    /\ excel_whole' = TRUE
    /\ wr_pc' = "idle"
    /\ UNCHANGED <<wrvars, excel_temp>>
    /\ UNCHANGED <<ckvars, lgvars, runvars, epvars, auxvars, invars>>

\* The process is killed in the middle of a write; the files stay as they are.
WorkbookKill ==
    /\ wr_pc \in {"append_replace", "summary_save"}
    /\ wr_pc' = "killed"
    /\ UNCHANGED <<wrvars, excel_temp, excel_whole>>
    /\ UNCHANGED <<ckvars, lgvars, runvars, epvars, auxvars, invars>>

\* A new process constructs its writer over the files on disk.
WorkbookReopen ==
    /\ wr_pc = "killed"
    /\ SetWriter(NewWriter(csv_file, excel_file))
    /\ wr_pc' = "idle"
    /\ UNCHANGED <<wr_last, wr_calls, excel_temp, excel_whole>>
    /\ UNCHANGED <<ckvars, lgvars, runvars, epvars, auxvars, invars>>

NextWorkbook ==
    \/ AppendTemp \/ AppendReplace \/ SummarySaveBegin \/ SummarySaveEnd
    \/ WorkbookKill \/ WorkbookReopen

SpecWorkbook == InitWriter /\ [][NextWorkbook]_vars

(***************************************************************************)
(* DataProcessor (src/src/data_processor.py).  A value is None, a string   *)
(* (the sequence of its characters), a float (its numeral: an optional     *)
(* minus sign, digits and at most one point) or an int.  A row is a        *)
(* function from the keys it carries to their values.                      *)
(***************************************************************************)
MaxBatch == 2

NoneValue == [t |-> "none", v |-> <<>>]
Str(chars) == [t |-> "str", v |-> chars]
FloatVal(numeral) == [t |-> "float", v |-> numeral]
IntVal(n) == [t |-> "int", v |-> n]

Digits == {"5"}

REQUIRED_FIELDS == {"food_name", "measurement_unit", "food_id"}

NUMERIC_FIELDS ==
    {"calories", "fat_g", "protein_g", "carbs_g", "fiber_g", "sugar_g", "salt_g",
     "measurement_value"}

IsEmptyStr(v) == v.t = "str" /\ v.v = <<>>

\* str.strip()
RECURSIVE LStrip(_)
LStrip(chars) ==
    IF chars # <<>> /\ Head(chars) = " " THEN LStrip(Tail(chars)) ELSE chars

RECURSIVE RStrip(_)
RStrip(chars) ==
    IF chars # <<>> /\ chars[Len(chars)] = " "
    THEN RStrip(SubSeq(chars, 1, Len(chars) - 1)) ELSE chars

Strip(chars) == RStrip(LStrip(chars))

\* re.sub(r'[^\d.-]', '', value)
numeric_str(chars) == SelectSeq(chars, LAMBDA c : c \in Digits \cup {".", "-"})

\* Whether float(chars) returns (TRUE) or raises ValueError (FALSE), for the
\* characters the model has.
IsFloatLiteral(chars) ==
    LET body == IF chars # <<>> /\ Head(chars) = "-" THEN Tail(chars) ELSE chars
    IN  /\ \A i \in DOMAIN body : body[i] # "-" /\ body[i] \in Digits \cup {"."}
        /\ Cardinality({i \in DOMAIN body : body[i] = "."}) <= 1
        /\ \E i \in DOMAIN body : body[i] \in Digits

\* Whether int(chars) returns, and what.
IsIntLiteral(chars) == chars # <<>> /\ \A i \in DOMAIN chars : chars[i] \in Digits

RECURSIVE IntOf(_)
IntOf(chars) ==
    IF chars = <<>> THEN 0 ELSE 10 * IntOf(SubSeq(chars, 1, Len(chars) - 1)) + 5

\* float_val < 0: every numeral of the model has a digit other than 0.
Negative(v) == Head(v.v) = "-"

\* clean_data, lines 104-126, for one numeric field.
clean_numeric(value) ==
    IF value = NoneValue \/ IsEmptyStr(value) THEN NoneValue
    ELSE IF value.t = "str"
         THEN IF numeric_str(value.v) = <<>> THEN NoneValue
              ELSE IF IsFloatLiteral(numeric_str(value.v))
                   THEN FloatVal(numeric_str(value.v))
                   ELSE NoneValue
    ELSE value

\* clean_data, lines 98-102, for one text field.
clean_text(value) ==
    IF value.t = "str" /\ value.v # <<>> THEN Str(Strip(value.v)) ELSE value

\* clean_data, lines 128-133
clean_food_id(value) ==
    IF value.t = "str" /\ IsIntLiteral(value.v) THEN IntVal(IntOf(value.v)) ELSE value

clean_data(row) ==
    [f \in DOMAIN row |->
        IF f \in {"food_name", "measurement_unit"} THEN clean_text(row[f])
        ELSE IF f \in NUMERIC_FIELDS THEN clean_numeric(row[f])
        ELSE IF f = "food_id" THEN clean_food_id(row[f])
        ELSE row[f]]

\* validate_row, lines 51-68: no error is recorded for the numeric field.
numeric_ok(field, value) ==
    IF value = NoneValue \/ IsEmptyStr(value) THEN TRUE
    ELSE IF value.t = "str"
         THEN /\ IsFloatLiteral(Strip(value.v))
              /\ field = "measurement_value" \/ Head(Strip(value.v)) # "-"
    ELSE IF value.t = "float" THEN field = "measurement_value" \/ ~Negative(value)
    ELSE TRUE

validate_row(row) ==
    /\ \A f \in REQUIRED_FIELDS :
            f \in DOMAIN row /\ row[f] # NoneValue /\ ~IsEmptyStr(row[f])
    /\ \A f \in NUMERIC_FIELDS \cap DOMAIN row : numeric_ok(f, row[f])
    /\ "food_id" \in DOMAIN row =>
            \/ row["food_id"].t \in {"int", "float"}
            \/ row["food_id"].t = "str" /\ IsIntLiteral(Strip(row["food_id"].v))

RECURSIVE process_batch(_)
process_batch(rows) ==
    IF rows = <<>> THEN <<>>
    ELSE LET cleaned == clean_data(Head(rows))
         IN  (IF validate_row(cleaned) THEN <<cleaned>> ELSE <<>>)
             \o process_batch(Tail(rows))

\* The values a scraped row may carry, per key; Absent: the key is missing.
Absent == [t |-> "absent", v |-> <<>>]

NumChars == {"5", "-", "g"}

FoodIdInputs == {IntVal(1), Str(<<"g">>)}

FoodNameInputs == {Absent, Str(<<" ">>), Str(<<" ", "a">>)}

NutrientInputs ==
    {Absent, NoneValue, Str(<<>>), FloatVal(<<"5">>), FloatVal(<<"-", "5">>)}
    \cup {Str(chars) : chars \in BoundedSeq(NumChars, MaxLen) \ {<<>>}}

MeasurementInputs == {Absent, FloatVal(<<"5">>), FloatVal(<<"-", "5">>)}

RawRow(id, name, cal, mval) ==
    LET all == [food_id |-> id, food_name |-> name, measurement_unit |-> Str(<<"a">>),
                calories |-> cal, measurement_value |-> mval]
    IN  [f \in {g \in DOMAIN all : all[g] # Absent} |-> all[f]]

RawRows ==
    {RawRow(id, name, cal, mval) :
        id \in FoodIdInputs, name \in FoodNameInputs, cal \in NutrientInputs,
        mval \in MeasurementInputs}

ProcessBatch ==
    /\ run_pc = "init"
    /\ processed' = process_batch(raw_rows)
    /\ run_pc' = "exited"
    /\ UNCHANGED <<raw_rows, resume>>
    /\ UNCHANGED <<food_ids_to_scrape, skipped_ids, exc, events, fetched, flush_raised,
                   prev, faults>>
    /\ UNCHANGED <<ckvars, wrvars, lgvars, epvars, xlvars, auxvars>>

InitProcessor ==
    /\ CkInit /\ WrInit /\ LgInit
    /\ completed_ids = <<>> /\ scraped_data = <<>>
    /\ run_pc = "init" /\ food_ids_to_scrape = <<>> /\ skipped_ids = <<>>
    /\ exc = "none" /\ events = <<>> /\ fetched = {} /\ flush_raised = {}
    /\ prev = NoResult /\ faults = 0
    /\ script = "main"
    /\ retry_successful = <<>> /\ retry_failed = <<>> /\ yielded = {} /\ completed = <<>>
    /\ task_queue = <<>> /\ in_flight = {} /\ futures_done = {}
    /\ resume = FALSE
    /\ processed = <<>>
    /\ raw_rows \in BoundedSeq(RawRows, MaxBatch) \ {<<>>}

NextProcessor == ProcessBatch

SpecProcessor == InitProcessor /\ [][NextProcessor]_vars

(***************************************************************************)
(* The skip ledger on its own.  The write of the ledger file fails at     *)
(* most once in a behaviour.                                               *)
(***************************************************************************)
LogSkipped ==
    /\ \E id \in Ids, c \in LogCalls, fail \in {FALSE, ~lg_failed} :
            LET r == log_skipped(skipped_items, log_file, id, c, fail)
            IN  /\ skipped_items' = r.items
                /\ lg_failed' = (lg_failed \/ r.raised)
                /\ log_file' = r.file
                /\ lg_last' = [lg_last EXCEPT ![id] = skipped_entry(id, c)]
                /\ lg_replaced' = \E i \in DOMAIN skipped_items :
                                        /\ skipped_items[i].food_id = id
                                        /\ skipped_items[i] # skipped_entry(id, c)
    /\ UNCHANGED <<ckvars, wrvars, runvars, epvars, xlvars, auxvars, invars>>

RemoveSkipped ==
    /\ \E id \in Ids, fail \in {FALSE, ~lg_failed} :
            LET r == remove_skipped(skipped_items, log_file, id, fail)
            IN  /\ skipped_items' = r.items
                /\ lg_failed' = (lg_failed \/ r.raised)
                /\ log_file' = r.file
    /\ lg_replaced' = FALSE
    /\ UNCHANGED <<lg_last, ckvars, wrvars, runvars, epvars, xlvars, auxvars, invars>>

\* A new process: SkippedLogger() reads the ledger file.
LedgerReopen ==
    /\ skipped_items' = load_existing(log_file)
    /\ lg_last' = [id \in Ids |-> NoResult]
    /\ lg_replaced' = FALSE
    /\ UNCHANGED <<log_file, lg_failed, ckvars, wrvars, runvars, epvars, xlvars, auxvars, invars>>

InitLedger == CkInit /\ WrInit /\ LgInit /\ RunInit /\ completed_ids = <<>> /\ scraped_data = <<>>

NextLedger == LogSkipped \/ RemoveSkipped \/ LedgerReopen

SpecLedger == InitLedger /\ [][NextLedger]_vars

(***************************************************************************)
(* The scrape loop: main() and FastMankanScraper.scrape_all.  One process  *)
(* runs at a time; a second one starts after the first has exited or was   *)
(* killed.  fault names the disk failure the environment injects into the  *)
(* step, at most MaxFaults of them in a behaviour.  The history variables  *)
(* of the component specifications above are not advanced here.            *)
(***************************************************************************)
checkpoint_frequency == 1

MaxFaults == 1

CheckpointFailures == {"ckpt_backup", "ckpt_write", "ckpt_replace"}

LedgerFailures == {"ledger", "ledger_once"}

Faults == {"none"} \cup (SinkFailures \ {"none"}) \cup CheckpointFailures \cup LedgerFailures

\* What scrape_item returns: rows, or the empty list (page not fetched, no valid row).
Outcomes == {"data", "no_data"}

\* The exceptions the writer and the ledger raise when the disk fails.
SinkError == [type |-> "PermissionError", msg |-> "Permission denied: sink"]

LedgerError == [type |-> "OSError", msg |-> "No space left on device"]

\* list(range(self.start_id, self.end_id + 1))
IdRange == [i \in 1..MaxId |-> i]

\* Mutant: the completed ids are not filtered out.
ids_to_scrape_unfiltered(ids, done) == ids

\* [fid for fid in food_ids_to_scrape if fid not in self.completed_ids]
ids_to_scrape(ids, done) ==
    SelectSeq(ids, LAMBDA fid : fid \notin SeqToSet(done))

\* CheckpointManager.save as one call; it returns False on any exception.
save(fs, d, ids, rows, ts, fault) ==
    LET b == save_backup(fs)
        doc == checkpoint_data(ids, rows, ts)
        w == write_temp(b, File(JsonDump(doc)))
    IN  IF fault = "ckpt_backup" /\ fs.primary.exists
        THEN [fs |-> fs, data |-> d, ret |-> FALSE]
        ELSE IF fault \in {"ckpt_write", "ckpt_replace"}
        THEN [fs |-> [b EXCEPT !.tmp = NoFile], data |-> d, ret |-> FALSE]
        ELSE [fs |-> save_replace(w), data |-> doc, ret |-> TRUE]

\* The objects of the running process and the files they own.
Process ==
    [completed_ids |-> completed_ids, scraped_data |-> scraped_data,
     skipped_ids |-> skipped_ids, w |-> Writer, items |-> skipped_items,
     log |-> log_file, fs |-> Files, data |-> data, save_ret |-> save_ret,
     committed |-> committed]

SetProcess(st) ==
    /\ completed_ids' = st.completed_ids
    /\ scraped_data' = st.scraped_data
    /\ skipped_ids' = st.skipped_ids
    /\ SetWriter(st.w)
    /\ skipped_items' = st.items
    /\ log_file' = st.log
    /\ checkpoint_file' = st.fs.primary
    /\ backup_file' = st.fs.bak
    /\ data' = st.data
    /\ save_ret' = st.save_ret
    /\ committed' = st.committed

\* self.checkpoint_manager.save(self.completed_ids, self.scraped_data)
with_save(st, ts, fault) ==
    LET s == save(st.fs, st.data, st.completed_ids, st.scraped_data, ts, fault)
    IN  [st EXCEPT !.fs = s.fs, !.data = s.data,
                   !.save_ret = IF s.ret THEN "True" ELSE "False",
                   !.committed = IF s.ret THEN s.data ELSE @]

\* Lines 430-431: the checkpoint inside the loop.
checkpoint_step(st, ts, fault) ==
    IF Len(st.completed_ids) % (checkpoint_frequency * 2) = 0
    THEN with_save(st, ts, fault)
    ELSE st

\* The except clause without its log_skipped call: the loop goes on, nothing is recorded.
handler_skips_ledger(st, food_id, e, fault) ==
    [st |-> [st EXCEPT !.skipped_ids = Append(@, food_id)],
     escaped |-> FALSE]

\* Lines 434-443: the per-id `except Exception as e` clause.
handler(st, food_id, e, fault) ==
    LET l == log_skipped(st.items, st.log, food_id,
                         [error |-> e, error_message |-> NoneVal, reason |-> "exception"],
                         fault = "ledger")
    IN  [st |-> [st EXCEPT !.skipped_ids = Append(@, food_id),
                           !.items = l.items, !.log = l.file],
         escaped |-> l.raised]

\* Lines 406-443: the body of the loop for one id.
process_id(st, food_id, outcome, ts, fault) ==
    IF outcome = "data"
    THEN LET rows == ItemRows(food_id)
             a == add_data(st.w, rows, IF fault \in SinkFailures THEN fault ELSE "none")
             st1 == [st EXCEPT !.scraped_data = @ \o rows,
                               !.completed_ids = Append(@, food_id),
                               !.w = a.w]
         IN  IF a.raised
             THEN handler(st1, food_id, SinkError, fault) @@ [flush_raised |-> TRUE]
             ELSE [st |-> checkpoint_step(st1, ts, fault), escaped |-> FALSE,
                   flush_raised |-> FALSE]
    ELSE LET l == log_skipped(st.items, st.log, food_id,
                              [error |-> NoError,
                               error_message |-> "No data extracted from page",
                               reason |-> "no_data"],
                              fault \in LedgerFailures)
             st1 == [st EXCEPT !.skipped_ids = Append(@, food_id),
                               !.items = l.items, !.log = l.file]
         IN  IF l.raised
             THEN handler(st1, food_id, LedgerError, fault) @@ [flush_raised |-> FALSE]
             ELSE [st |-> checkpoint_step(st1, ts, fault), escaped |-> FALSE,
                   flush_raised |-> FALSE]

Inject(fault) ==
    /\ fault # "none" => faults < MaxFaults
    /\ faults' = IF fault # "none" THEN faults + 1 ELSE faults
    /\ lg_failed' = (lg_failed \/ fault \in LedgerFailures)

\* Lines 380-392: scrape_all starts and filters the ids.
StartScrape ==
    /\ run_pc = "init"
    /\ run_pc' = "loop"
    /\ food_ids_to_scrape' = ids_to_scrape(IdRange, completed_ids)
    /\ UNCHANGED <<skipped_ids, exc, events, fetched, flush_raised, prev, faults>>
    /\ UNCHANGED <<ckvars, wrvars, lgvars>>
    /\ UNCHANGED <<epvars, xlvars, auxvars, invars>>

\* One turn of the loop.
ScrapeId ==
    /\ run_pc = "loop"
    /\ food_ids_to_scrape # <<>>
    /\ \E outcome \in Outcomes, ts \in Times, fault \in Faults :
            LET food_id == Head(food_ids_to_scrape)
                r == process_id(Process, food_id, outcome, ts, fault)
            IN  /\ Inject(fault)
                /\ SetProcess(r.st)
                /\ fetched' = fetched \cup {food_id}
                /\ yielded' = IF outcome = "data" THEN yielded \cup {food_id} ELSE yielded
                /\ flush_raised' = IF r.flush_raised THEN flush_raised \cup {food_id}
                                   ELSE flush_raised
                /\ exc' = IF r.escaped THEN "Exception" ELSE "none"
                /\ run_pc' = IF r.escaped THEN "finally" ELSE "loop"
    /\ food_ids_to_scrape' = Tail(food_ids_to_scrape)
    /\ UNCHANGED <<events, prev>>
    /\ UNCHANGED <<temp_file, pc, load_ret, now, corrupted, crash_pc>>
    /\ UNCHANGED <<wr_last, wr_calls, lg_last, lg_replaced>>
    /\ UNCHANGED <<script, retry_successful, retry_failed, completed>>
    /\ UNCHANGED <<xlvars, auxvars, invars>>

\* Ctrl-C while the loop runs: KeyboardInterrupt is not an Exception.
KeyboardInterrupt ==
    /\ run_pc = "loop"
    /\ food_ids_to_scrape # <<>>
    /\ exc' = "KeyboardInterrupt"
    /\ run_pc' = "finally"
    /\ UNCHANGED <<food_ids_to_scrape, skipped_ids, events, fetched, flush_raised,
                   prev, faults>>
    /\ UNCHANGED <<ckvars, wrvars, lgvars>>
    /\ UNCHANGED <<epvars, xlvars, auxvars, invars>>

\* Line 449: the final checkpoint after the loop.
FinalCheckpoint ==
    /\ run_pc = "loop"
    /\ food_ids_to_scrape = <<>>
    /\ \E ts \in Times, fault \in {"none"} \cup CheckpointFailures :
            /\ Inject(fault)
            /\ SetProcess(with_save(Process, ts, fault))
    /\ events' = Append(events, "save")
    /\ run_pc' = "finalize"
    /\ UNCHANGED <<food_ids_to_scrape, exc, fetched, flush_raised, prev>>
    /\ UNCHANGED <<temp_file, pc, load_ret, now, corrupted, crash_pc>>
    /\ UNCHANGED <<wr_last, wr_calls, lg_last, lg_replaced>>
    /\ UNCHANGED <<epvars, xlvars, auxvars, invars>>

\* Line 452: finalize() after the final checkpoint; what it raises leaves scrape_all.
FinalizeWriter ==
    /\ run_pc = "finalize"
    /\ \E fault \in SinkFailures :
            LET r == finalize(Writer, fault)
            IN  /\ Inject(fault)
                /\ SetWriter(r.w)
                /\ exc' = IF r.raised THEN "Exception" ELSE "none"
    /\ events' = Append(events, "finalize")
    /\ run_pc' = "finally"
    /\ UNCHANGED <<food_ids_to_scrape, skipped_ids, fetched, flush_raised, prev>>
    /\ UNCHANGED <<ckvars, wr_last, wr_calls>>
    /\ UNCHANGED <<skipped_items, log_file, lg_last, lg_replaced>>
    /\ UNCHANGED <<epvars, xlvars, auxvars, invars>>

\* Lines 464-470 and main(), lines 165-170: the finally clause, then the exit.
FinallyFinalize ==
    /\ run_pc = "finally"
    /\ \E fault \in SinkFailures :
            /\ Inject(fault)
            /\ SetWriter(finalize(Writer, fault).w)
    /\ events' = Append(events, "finalize")
    /\ run_pc' = "exited"
    /\ UNCHANGED <<food_ids_to_scrape, skipped_ids, exc, fetched, flush_raised, prev>>
    /\ UNCHANGED <<ckvars, wr_last, wr_calls>>
    /\ UNCHANGED <<skipped_items, log_file, lg_last, lg_replaced>>
    /\ UNCHANGED <<epvars, xlvars, auxvars, invars>>

\* The process is killed between two steps.
Kill ==
    /\ run_pc \in {"loop", "finalize", "finally"}
    /\ run_pc' = "crashed"
    /\ UNCHANGED <<food_ids_to_scrape, skipped_ids, exc, events, fetched, flush_raised,
                   prev, faults>>
    /\ UNCHANGED <<ckvars, wrvars, lgvars>>
    /\ UNCHANGED <<epvars, xlvars, auxvars, invars>>

\* How a process ended: its completed ids, and the sinks as it left them.
Ended ==
    [normal |-> run_pc = "exited" /\ exc = "none" /\ save_ret = "True",
     completed |-> SeqToSet(completed_ids),
     csv |-> csv_file.rows,
     xlsx |-> excel_file.rows]

\* The program is started again over the same files: the constructors of
\* CheckpointManager, FastMankanScraper, IncrementalWriter and SkippedLogger.
NewProcess ==
    /\ run_pc \in {"exited", "crashed"}
    /\ prev = NoResult
    /\ prev' = Ended
    /\ LET l == load(checkpoint_file, backup_file, EmptyDict)
       IN  /\ data' = l.data
           /\ completed_ids' = Get(l.ret, "completed_ids", <<>>)
           /\ scraped_data' = Get(l.ret, "data", <<>>)
    /\ SetWriter(NewWriter(csv_file, excel_file))
    /\ skipped_items' = load_existing(log_file)
    /\ skipped_ids' = <<>>
    /\ save_ret' = "None"
    /\ run_pc' = "init"
    /\ food_ids_to_scrape' = <<>>
    /\ exc' = "none"
    /\ events' = <<>>
    /\ fetched' = {}
    /\ flush_raised' = {}
    /\ UNCHANGED <<checkpoint_file, backup_file, temp_file, pc, load_ret, now,
                   committed, corrupted, crash_pc>>
    /\ UNCHANGED <<wr_last, wr_calls, log_file, lg_last, lg_replaced, lg_failed, faults>>
    /\ yielded' = {}
    /\ UNCHANGED <<script, retry_successful, retry_failed, completed>>
    /\ resume' \in BOOLEAN
    /\ UNCHANGED <<raw_rows, processed>>
    /\ UNCHANGED <<xlvars, auxvars>>

InitRun == CkInit /\ WrInit /\ LgInit /\ RunInit /\ completed_ids = <<>> /\ scraped_data = <<>>

NextRun ==
    \/ StartScrape \/ ScrapeId \/ KeyboardInterrupt \/ FinalCheckpoint
    \/ FinalizeWriter \/ FinallyFinalize \/ Kill \/ NewProcess

SpecRun == InitRun /\ [][NextRun]_vars

\* The interpreter runs a live process on: a turn of the loop, and the final
\* checkpoint after it, is taken once it stays possible. Ctrl-C, a kill and a new
\* process come from outside and carry no fairness. A turn is possible exactly
\* when the loop has an id left, and the final checkpoint exactly when it has
\* none (a step under no fault is always among the choices of both), so the two
\* conjuncts are WF_vars(ScrapeId) and WF_vars(FinalCheckpoint) with their
\* enabling conditions written out.
LoopHasWork == run_pc = "loop" /\ food_ids_to_scrape # <<>>

LoopDone == run_pc = "loop" /\ food_ids_to_scrape = <<>>

SpecRunFair ==
    /\ SpecRun
    /\ ([]<>~LoopHasWork \/ []<><<ScrapeId>>_vars)
    /\ ([]<>~LoopDone \/ []<><<FinalCheckpoint>>_vars)

(***************************************************************************)
(* ParallelScraper (src/src/scraper_parallel.py).  The worker tasks only   *)
(* fetch and extract; their results are handled one at a time, in the      *)
(* order the tasks complete, by the loop of scrape_all.  self.completed_ids *)
(* is a set: the model keeps it as the list of its members.                *)
(***************************************************************************)
\* `if len(completed) % 50 == 0`, scaled down.
parallel_checkpoint_every == 2

\* The log_skipped call of the parallel loop for an id without data (lines 333-337).
ParallelNoDataCall ==
    [error |-> NoError, error_message |-> "No data extracted", reason |-> "no_data"]

\* set.add
SetAdd(ids, id) == IF id \in SeqToSet(ids) THEN ids ELSE Append(ids, id)

\* The sequence without its i-th element.
RemoveAt(seq, i) == SubSeq(seq, 1, i - 1) \o SubSeq(seq, i + 1, Len(seq))

\* Lines 320-353: the handling of one completed task.
parallel_result(st, done, food_id, outcome, ts, fault) ==
    LET except(x, e) ==
            LET l == log_skipped(x.items, x.log, food_id,
                                 [error |-> e, error_message |-> NoneVal,
                                  reason |-> "exception"],
                                 fault = "ledger")
            IN  [st |-> [x EXCEPT !.skipped_ids = Append(@, food_id),
                                  !.items = l.items, !.log = l.file],
                 escaped |-> l.raised]
        checkpoint(x, d) ==
            IF Len(d) % parallel_checkpoint_every = 0 THEN with_save(x, ts, fault) ELSE x
    IN  IF outcome = "data"
        THEN LET rows == ItemRows(food_id)
                 a == add_data(st.w, rows, IF fault \in SinkFailures THEN fault ELSE "none")
                 st1 == [st EXCEPT !.scraped_data = @ \o rows,
                                   !.completed_ids = SetAdd(@, food_id),
                                   !.w = a.w]
                 done1 == Append(done, food_id)
             IN  IF a.raised
                 THEN except(st1, SinkError) @@ [completed |-> done1]
                 ELSE [st |-> checkpoint(st1, done1), escaped |-> FALSE,
                       completed |-> done1]
        ELSE LET l == log_skipped(st.items, st.log, food_id, ParallelNoDataCall,
                                  fault \in LedgerFailures)
                 st1 == [st EXCEPT !.skipped_ids = Append(@, food_id),
                                   !.items = l.items, !.log = l.file]
             IN  IF l.raised
                 THEN except(st1, LedgerError) @@ [completed |-> done]
                 ELSE [st |-> checkpoint(st1, done), escaped |-> FALSE,
                       completed |-> done]

\* Lines 285-298: the ids are filtered, the local lists start empty, and one
\* task per id is submitted.
ParallelStart ==
    /\ run_pc = "init"
    /\ script = "parallel"
    /\ food_ids_to_scrape' = ids_to_scrape(IdRange, completed_ids)
    /\ run_pc' = IF ids_to_scrape(IdRange, completed_ids) = <<>> THEN "exited"
                 ELSE "parallel_loop"
    /\ scraped_data' = <<>>
    /\ completed' = <<>>
    /\ skipped_ids' = <<>>
    /\ UNCHANGED <<checkpoint_file, backup_file, temp_file, data, completed_ids, pc,
                   save_ret, load_ret, now, committed, corrupted, crash_pc>>
    /\ UNCHANGED <<exc, events, fetched, flush_raised, prev, faults>>
    /\ UNCHANGED <<script, retry_successful, retry_failed, yielded>>
    /\ UNCHANGED <<wrvars, lgvars>>
    /\ UNCHANGED <<xlvars, auxvars, invars>>

\* A task completes, in any order, and its result is handled.
ParallelResult ==
    /\ run_pc = "parallel_loop"
    /\ \E i \in DOMAIN food_ids_to_scrape, outcome \in Outcomes, ts \in Times,
          fault \in Faults :
            LET food_id == food_ids_to_scrape[i]
                r == parallel_result(Process, completed, food_id, outcome, ts, fault)
            IN  /\ Inject(fault)
                /\ SetProcess(r.st)
                /\ completed' = r.completed
                /\ food_ids_to_scrape' = RemoveAt(food_ids_to_scrape, i)
                /\ fetched' = fetched \cup {food_id}
                /\ yielded' = IF outcome = "data" THEN yielded \cup {food_id} ELSE yielded
                /\ exc' = IF r.escaped THEN "Exception" ELSE "none"
                /\ run_pc' = IF r.escaped THEN "exited" ELSE "parallel_loop"
    /\ UNCHANGED <<script, retry_successful, retry_failed, events, flush_raised, prev>>
    /\ UNCHANGED <<temp_file, pc, load_ret, now, corrupted, crash_pc>>
    /\ UNCHANGED <<wr_last, wr_calls, lg_last, lg_replaced>>
    /\ UNCHANGED <<xlvars, auxvars, invars>>

\* Line 373: finalize() after the loop; what it raises leaves scrape_all.
ParallelFinalize ==
    /\ run_pc = "parallel_loop"
    /\ food_ids_to_scrape = <<>>
    /\ \E fault \in SinkFailures :
            LET r == finalize(Writer, fault)
            IN  /\ Inject(fault)
                /\ SetWriter(r.w)
                /\ exc' = IF r.raised THEN "Exception" ELSE "none"
                /\ run_pc' = IF r.raised THEN "exited" ELSE "parallel_save"
    /\ events' = Append(events, "finalize")
    /\ UNCHANGED <<food_ids_to_scrape, skipped_ids, fetched, flush_raised, prev>>
    /\ UNCHANGED <<ckvars, wr_last, wr_calls>>
    /\ UNCHANGED <<skipped_items, log_file, lg_last, lg_replaced>>
    /\ UNCHANGED <<epvars, xlvars, auxvars, invars>>

\* Line 374: self.checkpoint_manager.save(list(self.completed_ids), scraped_data)
ParallelSave ==
    /\ run_pc = "parallel_save"
    /\ \E ts \in Times, fault \in {"none"} \cup CheckpointFailures :
            /\ Inject(fault)
            /\ SetProcess(with_save(Process, ts, fault))
    /\ events' = Append(events, "save")
    /\ run_pc' = "exited"
    /\ UNCHANGED <<food_ids_to_scrape, exc, fetched, flush_raised, prev>>
    /\ UNCHANGED <<temp_file, pc, load_ret, now, corrupted, crash_pc>>
    /\ UNCHANGED <<wr_last, wr_calls, lg_last, lg_replaced>>
    /\ UNCHANGED <<epvars, xlvars, auxvars, invars>>

\* The process is killed between two steps.
ParallelKill ==
    /\ run_pc \in {"parallel_loop", "parallel_save"}
    /\ run_pc' = "crashed"
    /\ UNCHANGED <<food_ids_to_scrape, skipped_ids, exc, events, fetched, flush_raised,
                   prev, faults>>
    /\ UNCHANGED <<ckvars, wrvars, lgvars, epvars, xlvars, auxvars, invars>>

\* The program is started again over the same files: ParallelScraper.__init__,
\* lines 41-56.  Only completed_ids is taken from the checkpoint.
ParallelNewProcess ==
    /\ run_pc \in {"exited", "crashed"}
    /\ prev = NoResult
    /\ prev' = Ended
    /\ LET l == load(checkpoint_file, backup_file, EmptyDict)
       IN  /\ data' = l.data
           /\ completed_ids' = Get(l.ret, "completed_ids", <<>>)
    /\ scraped_data' = <<>>
    /\ SetWriter(NewWriter(csv_file, excel_file))
    /\ skipped_items' = load_existing(log_file)
    /\ skipped_ids' = <<>>
    /\ completed' = <<>>
    /\ save_ret' = "None"
    /\ run_pc' = "init"
    /\ food_ids_to_scrape' = <<>>
    /\ exc' = "none"
    /\ events' = <<>>
    /\ fetched' = {}
    /\ flush_raised' = {}
    /\ yielded' = {}
    /\ UNCHANGED <<checkpoint_file, backup_file, temp_file, pc, load_ret, now,
                   committed, corrupted, crash_pc>>
    /\ UNCHANGED <<wr_last, wr_calls, log_file, lg_last, lg_replaced, lg_failed, faults>>
    /\ UNCHANGED <<script, retry_successful, retry_failed>>
    /\ UNCHANGED <<xlvars, auxvars, invars>>

InitParallel ==
    /\ CkInit /\ WrInit /\ LgInit
    /\ completed_ids = <<>> /\ scraped_data = <<>>
    /\ run_pc = "init" /\ food_ids_to_scrape = <<>> /\ skipped_ids = <<>>
    /\ exc = "none" /\ events = <<>> /\ fetched = {} /\ flush_raised = {}
    /\ prev = NoResult /\ faults = 0
    /\ script = "parallel"
    /\ retry_successful = <<>> /\ retry_failed = <<>> /\ yielded = {} /\ completed = <<>>
    /\ task_queue = <<>> /\ in_flight = {} /\ futures_done = {}
    /\ raw_rows = <<>> /\ processed = <<>> /\ resume = FALSE

NextParallel ==
    \/ ParallelStart \/ ParallelResult \/ ParallelFinalize \/ ParallelSave
    \/ ParallelKill \/ ParallelNewProcess

SpecParallel == InitParallel /\ [][NextParallel]_vars

(***************************************************************************)
(* The thread pool of the parallel variant in steps: the tasks are         *)
(* submitted, the threads of the executor take them in the order of        *)
(* submission, and the orchestrator handles the futures as they complete.  *)
(***************************************************************************)
num_workers == 2

\* The ids handed to scrape_all: one more than there are workers.
PoolRange == [i \in 1..(num_workers + 1) |-> i]

\* Lines 313-317: the task of the i-th id gets the page of browser i % num_workers.
submitted(ids) ==
    [i \in DOMAIN ids |-> [food_id |-> ids[i], page |-> (i - 1) % num_workers]]

\* Mutant: the worker hands its rows to the writer itself.
scrape_single_item_adds(shared, food_id, outcome) ==
    LET results == IF outcome = "data" THEN ItemRows(food_id) ELSE <<>>
    IN  [shared |-> [shared EXCEPT !.w = add_data(@, results, "none").w],
         results |-> results]

\* _scrape_single_item, lines 88-163: the worker uses its page and the data
\* processor, catches every exception and returns the rows; the writer, the
\* checkpoint manager and the ledger are not used.
scrape_single_item(shared, food_id, outcome) ==
    [shared |-> shared,
     results |-> IF outcome = "data" THEN ItemRows(food_id) ELSE <<>>]

\* Lines 285-317.
PoolSubmit ==
    /\ run_pc = "init"
    /\ script = "parallel"
    /\ food_ids_to_scrape' = ids_to_scrape(PoolRange, completed_ids)
    /\ task_queue' = submitted(ids_to_scrape(PoolRange, completed_ids))
    /\ run_pc' = "parallel_loop"
    /\ scraped_data' = <<>>
    /\ completed' = <<>>
    /\ skipped_ids' = <<>>
    /\ UNCHANGED <<checkpoint_file, backup_file, temp_file, data, completed_ids, pc,
                   save_ret, load_ret, now, committed, corrupted, crash_pc>>
    /\ UNCHANGED <<exc, events, fetched, flush_raised, prev, faults>>
    /\ UNCHANGED <<script, retry_successful, retry_failed, yielded>>
    /\ UNCHANGED <<wrvars, lgvars, xlvars, in_flight, futures_done>>
    /\ UNCHANGED invars

\* A free thread of the executor takes the next task of the queue.
TaskStart ==
    /\ task_queue # <<>>
    /\ Cardinality(in_flight) < num_workers
    /\ in_flight' = in_flight \cup {Head(task_queue)}
    /\ task_queue' = Tail(task_queue)
    /\ UNCHANGED <<ckvars, wrvars, lgvars, runvars, epvars, xlvars, futures_done>>
    /\ UNCHANGED invars

\* A running task returns and its future is done.
TaskReturn ==
    /\ \E t \in in_flight, outcome \in Outcomes :
            LET r == scrape_single_item(Process, t.food_id, outcome)
            IN  /\ SetProcess(r.shared)
                /\ in_flight' = in_flight \ {t}
                /\ futures_done' = futures_done \cup
                        {[food_id |-> t.food_id, outcome |-> outcome]}
    /\ UNCHANGED <<temp_file, pc, load_ret, now, corrupted, crash_pc>>
    /\ UNCHANGED <<wr_last, wr_calls, lg_last, lg_replaced, lg_failed>>
    /\ UNCHANGED <<runvars, epvars, xlvars, task_queue>>
    /\ UNCHANGED invars

\* Lines 320-353: as_completed yields a future that is done and the
\* orchestrator handles its result.
PoolResult ==
    /\ run_pc = "parallel_loop"
    /\ \E f \in futures_done, ts \in Times, fault \in Faults :
            LET r == parallel_result(Process, completed, f.food_id, f.outcome, ts, fault)
            IN  /\ Inject(fault)
                /\ SetProcess(r.st)
                /\ completed' = r.completed
                /\ food_ids_to_scrape' =
                        SelectSeq(food_ids_to_scrape, LAMBDA fid : fid # f.food_id)
                /\ futures_done' = futures_done \ {f}
                /\ fetched' = fetched \cup {f.food_id}
                /\ yielded' = IF f.outcome = "data" THEN yielded \cup {f.food_id}
                              ELSE yielded
                /\ exc' = IF r.escaped THEN "Exception" ELSE "none"
                /\ run_pc' = IF r.escaped THEN "exited" ELSE "parallel_loop"
    /\ UNCHANGED <<script, retry_successful, retry_failed, events, flush_raised, prev>>
    /\ UNCHANGED <<temp_file, pc, load_ret, now, corrupted, crash_pc>>
    /\ UNCHANGED <<wr_last, wr_calls, lg_last, lg_replaced>>
    /\ UNCHANGED <<xlvars, task_queue, in_flight>>
    /\ UNCHANGED invars

InitPool == InitParallel

NextPool ==
    \/ PoolSubmit \/ TaskStart \/ TaskReturn \/ PoolResult
    \/ ParallelFinalize \/ ParallelSave

SpecPool == InitPool /\ [][NextPool]_vars

(***************************************************************************)
(* The retry entry points: scripts/retry_skipped.py and                    *)
(* scripts/retry_skipped_foods.py, started over the files an earlier run   *)
(* of main.py left: its checkpoint, its sinks and its skip ledger.         *)
(***************************************************************************)
Scripts == {"retry_skipped", "retry_skipped_foods"}

\* The ids of a set in ascending order.
RECURSIVE Ascending(_)
Ascending(S) ==
    IF S = {} THEN <<>>
    ELSE LET m == CHOOSE x \in S : \A y \in S : x <= y
         IN  <<m>> \o Ascending(S \ {m})

RECURSIVE RowsOfAll(_)
RowsOfAll(ids) ==
    IF ids = <<>> THEN <<>> ELSE ItemRows(Head(ids)) \o RowsOfAll(Tail(ids))

\* The log_skipped call of the main loop for an id without data (lines 419-423).
NoDataCall ==
    [error |-> NoError, error_message |-> "No data extracted from page",
     reason |-> "no_data"]

\* The ledger a fault-free run of main.py leaves when the ids of S had no data.
LedgerOf(S) == [i \in 1..Cardinality(S) |-> skipped_entry(Ascending(S)[i], NoDataCall)]

\* One turn of the loop of retry_skipped.py, lines 152-189.
retry_skipped_id(st, food_id, outcome, fault) ==
    LET rows == ItemRows(food_id)
        a == add_data(st.w, rows, IF fault \in SinkFailures THEN fault ELSE "none")
        st1 == [st EXCEPT !.w = a.w]
        rm == remove_skipped(st1.items, st1.log, food_id, fault \in LedgerFailures)
        st2 == [st1 EXCEPT !.items = rm.items, !.log = rm.file]
        failed(x, e) ==
            LET l == log_skipped(x.items, x.log, food_id,
                                 [error |-> e, error_message |-> NoneVal,
                                  reason |-> "retry_failed"],
                                 fault = "ledger")
            IN  [st |-> [x EXCEPT !.items = l.items, !.log = l.file],
                 escaped |-> l.raised, successful |-> FALSE, failed |-> TRUE]
    IN  IF outcome # "data"
        THEN [st |-> st, escaped |-> FALSE, successful |-> FALSE, failed |-> TRUE]
        ELSE IF a.raised THEN failed(st1, SinkError)
        ELSE IF rm.raised THEN failed(st2, LedgerError)
        ELSE [st |-> st2, escaped |-> FALSE, successful |-> TRUE, failed |-> FALSE]

\* One turn of the loop of retry_skipped_foods.py, lines 57-75.  SkippedLogger has
\* no method remove_skipped_item: the call raises AttributeError, which the
\* `except Exception` of the turn logs.
retry_skipped_foods_id(st, food_id, outcome, fault) ==
    LET rows == ItemRows(food_id)
        a == add_data(st.w, rows, IF fault \in SinkFailures THEN fault ELSE "none")
    IN  IF outcome # "data"
        THEN [st |-> st, escaped |-> FALSE, successful |-> FALSE, failed |-> TRUE]
        ELSE [st |-> [st EXCEPT !.scraped_data = @ \o rows,
                                !.completed_ids = Append(@, food_id),
                                !.w = a.w],
              escaped |-> FALSE, successful |-> ~a.raised, failed |-> a.raised]

\* The constructors at the head of both scripts, and the list of ids to retry.
RetryStart ==
    /\ run_pc = "init"
    /\ script \in Scripts
    /\ skipped_items' = load_existing(log_file)
    /\ IF load_existing(log_file) = <<>>
       THEN /\ run_pc' = "exited"
            /\ UNCHANGED <<data, completed_ids, scraped_data, food_ids_to_scrape>>
            /\ UNCHANGED <<pending_data, csv_file, excel_file, csv_exists, excel_exists>>
       ELSE /\ run_pc' = "retry_loop"
            /\ food_ids_to_scrape' =
                    [i \in DOMAIN log_file.items |-> log_file.items[i].food_id]
            /\ LET l == load(checkpoint_file, backup_file, EmptyDict)
                   done == Get(l.ret, "completed_ids", <<>>)
               IN  /\ data' = l.data
                   /\ scraped_data' = Get(l.ret, "data", <<>>)
                   /\ completed_ids' =
                        IF script = "retry_skipped_foods"
                        THEN SelectSeq(done, LAMBDA cid : cid \notin LedgerIds(log_file.items))
                        ELSE done
            /\ SetWriter(NewWriter(csv_file, excel_file))
    /\ UNCHANGED <<checkpoint_file, backup_file, temp_file, pc, save_ret, load_ret, now,
                   committed, corrupted, crash_pc>>
    /\ UNCHANGED <<wr_last, wr_calls, log_file, lg_last, lg_replaced, lg_failed>>
    /\ UNCHANGED <<skipped_ids, exc, events, fetched, flush_raised, prev, faults>>
    /\ UNCHANGED <<epvars, xlvars, auxvars, invars>>

\* One turn of the retry loop.
RetryId ==
    /\ run_pc = "retry_loop"
    /\ food_ids_to_scrape # <<>>
    /\ \E outcome \in Outcomes, fault \in {"none"} \cup (SinkFailures \ {"none"}) \cup LedgerFailures :
            LET food_id == Head(food_ids_to_scrape)
                r == IF script = "retry_skipped"
                     THEN retry_skipped_id(Process, food_id, outcome, fault)
                     ELSE retry_skipped_foods_id(Process, food_id, outcome, fault)
            IN  /\ Inject(fault)
                /\ SetProcess(r.st)
                /\ fetched' = fetched \cup {food_id}
                /\ yielded' = IF outcome = "data" THEN yielded \cup {food_id} ELSE yielded
                /\ retry_successful' = IF r.successful THEN Append(retry_successful, food_id)
                                       ELSE retry_successful
                /\ retry_failed' = IF r.failed THEN Append(retry_failed, food_id)
                                   ELSE retry_failed
                /\ exc' = IF r.escaped THEN "Exception" ELSE "none"
                /\ run_pc' = IF r.escaped THEN "retry_except" ELSE "retry_loop"
    /\ food_ids_to_scrape' = Tail(food_ids_to_scrape)
    /\ UNCHANGED <<script, completed, events, flush_raised, prev>>
    /\ UNCHANGED <<temp_file, pc, load_ret, now, corrupted, crash_pc>>
    /\ UNCHANGED <<wr_last, wr_calls, lg_last, lg_replaced>>
    /\ UNCHANGED <<xlvars, auxvars, invars>>

\* incremental_writer.finalize() after the loop (retry_skipped.py line 192,
\* retry_skipped_foods.py line 77).
RetryFinalize ==
    /\ run_pc = "retry_loop"
    /\ food_ids_to_scrape = <<>>
    /\ \E fault \in SinkFailures :
            LET r == finalize(Writer, fault)
            IN  /\ Inject(fault)
                /\ SetWriter(r.w)
                /\ exc' = IF r.raised THEN "Exception" ELSE "none"
                /\ run_pc' = IF r.raised THEN "retry_except"
                             ELSE IF script = "retry_skipped_foods" THEN "retry_save"
                             ELSE "exited"
    /\ events' = Append(events, "finalize")
    /\ UNCHANGED <<food_ids_to_scrape, skipped_ids, fetched, flush_raised, prev>>
    /\ UNCHANGED <<ckvars, wr_last, wr_calls>>
    /\ UNCHANGED <<skipped_items, log_file, lg_last, lg_replaced>>
    /\ UNCHANGED <<epvars, xlvars, auxvars, invars>>

\* retry_skipped_foods.py, lines 78-81: the checkpoint save that ends the script.
RetrySave ==
    /\ run_pc = "retry_save"
    /\ \E ts \in Times, fault \in {"none"} \cup CheckpointFailures :
            /\ Inject(fault)
            /\ SetProcess(with_save(Process, ts, fault))
    /\ events' = Append(events, "save")
    /\ run_pc' = "exited"
    /\ UNCHANGED <<food_ids_to_scrape, exc, fetched, flush_raised, prev>>
    /\ UNCHANGED <<temp_file, pc, load_ret, now, corrupted, crash_pc>>
    /\ UNCHANGED <<wr_last, wr_calls, lg_last, lg_replaced>>
    /\ UNCHANGED <<epvars, xlvars, auxvars, invars>>

\* An exception leaves the loop: retry_skipped.py finalizes the writer and exits
\* with status 1 (lines 214-217); retry_skipped_foods.py only closes the browser.
RetryExcept ==
    /\ run_pc = "retry_except"
    /\ IF script = "retry_skipped"
       THEN /\ SetWriter(finalize(Writer, "none").w)
            /\ events' = Append(events, "finalize")
       ELSE UNCHANGED <<pending_data, csv_file, excel_file, csv_exists, excel_exists, events>>
    /\ run_pc' = "exited"
    /\ UNCHANGED <<food_ids_to_scrape, skipped_ids, exc, fetched, flush_raised, prev, faults>>
    /\ UNCHANGED <<ckvars, wr_last, wr_calls, lgvars, epvars, xlvars, auxvars, invars>>

\* The files an earlier run left: the ids of S were skipped without data, the
\* others completed and written.
InitRetry ==
    /\ backup_file = NoFile /\ temp_file = NoFile /\ data = EmptyDict
    /\ pc = "idle" /\ save_ret = "None" /\ load_ret = NoResult /\ now = NoneVal
    /\ committed = NoResult /\ corrupted = FALSE /\ crash_pc = "none"
    /\ completed_ids = <<>> /\ scraped_data = <<>>
    /\ pending_data = <<>> /\ csv_exists = FALSE /\ excel_exists = FALSE
    /\ wr_last = NoResult /\ wr_calls = 0
    /\ excel_temp = NoSink /\ excel_whole = TRUE /\ wr_pc = "idle"
    /\ task_queue = <<>> /\ in_flight = {} /\ futures_done = {}
    /\ raw_rows = <<>> /\ processed = <<>> /\ resume = FALSE
    /\ skipped_items = <<>> /\ lg_last = [id \in Ids |-> NoResult]
    /\ lg_replaced = FALSE /\ lg_failed = FALSE
    /\ run_pc = "init" /\ food_ids_to_scrape = <<>> /\ skipped_ids = <<>>
    /\ exc = "none" /\ events = <<>> /\ fetched = {} /\ flush_raised = {}
    /\ prev = NoResult /\ faults = 0
    /\ retry_successful = <<>> /\ retry_failed = <<>> /\ yielded = {}
    /\ completed = <<>>
    /\ \E S \in SUBSET Ids, sc \in Scripts, ts \in Times :
            LET done == Ascending(Ids \ S)
            IN  /\ script = sc
                /\ checkpoint_file =
                        File(JsonDump(checkpoint_data(done, RowsOfAll(done), ts)))
                /\ csv_file = [exists |-> done # <<>>, rows |-> csv_rows(RowsOfAll(done))]
                /\ excel_file = [exists |-> done # <<>>, rows |-> excel_rows(RowsOfAll(done))]
                /\ log_file = [exists |-> S # {}, items |-> LedgerOf(S)]

NextRetry == RetryStart \/ RetryId \/ RetryFinalize \/ RetrySave \/ RetryExcept

SpecRetry == InitRetry /\ [][NextRetry]_vars

(***************************************************************************)
(* Claims about the checkpoint store.                                      *)
(***************************************************************************)
\* The value load() returned describes the files as they are now.
LoadRetCurrent ==
    load_ret # NoResult =>
        load_ret = load(checkpoint_file, backup_file, EmptyDict).ret

\* Cutting a dumped document anywhere short of its end leaves no JSON document.
TruncatedIsRejected ==
    \A t \in Prefixes(JsonDump(checkpoint_data(completed_ids, scraped_data, NoneVal))) :
        ~WellFormed(t)

\* C1: after save(S, R) returned True, load() returns completed_ids with the
\* set of S, data equal to R in the same order, and total_scraped = len(R).
C1_RoundTrip ==
    (save_ret = "True" /\ load_ret # NoResult) =>
        /\ SeqToSet(load_ret.completed_ids) = SeqToSet(completed_ids)
        /\ load_ret.data = scraped_data
        /\ load_ret.total_scraped = Len(scraped_data)

C1_Witness ==
    /\ save_ret = "True"
    /\ load_ret # NoResult
    /\ Len(scraped_data) = MaxLen
    /\ Len(completed_ids) = MaxLen
    /\ completed_ids # sorted(completed_ids)
    /\ load_ret.completed_ids # completed_ids

\* C2: a crash of save() after the temporary file is partly or fully written
\* and before the rename leaves the primary file with exactly the content
\* of the previous successful save, and load() returns that state.
C2_Atomic ==
    (pc = "crashed" /\ crash_pc \in {"save_write", "save_replace"} /\ ~corrupted) =>
        IF committed = NoResult
        THEN checkpoint_file = NoFile
        ELSE /\ checkpoint_file = File(JsonDump(committed))
             /\ load(checkpoint_file, backup_file, EmptyDict).ret = committed

C2_Witness ==
    /\ pc = "crashed"
    /\ crash_pc = "save_write"
    /\ ~corrupted
    /\ committed # NoResult
    /\ temp_file.exists
    /\ ~WellFormed(temp_file.content)
    /\ CurrentData.completed_ids # committed.completed_ids

\* C3: whenever the primary file exists but cannot be read or parsed, whatever
\* the failure, and a valid .bak exists, load() returns the .bak contents.
C3_Fallback ==
    ( /\ load_ret # NoResult
      /\ checkpoint_file.exists
      /\ ReadJson(checkpoint_file).err # "none"
      /\ backup_file.exists
      /\ ReadJson(backup_file).err = "none" ) =>
        load_ret = ReadJson(backup_file).val

\* C4: load() never raises; with the primary absent, or the primary
\* unparseable and the .bak absent or unparseable, it returns the zero state.
C4_ZeroState ==
    /\ ~load(checkpoint_file, backup_file, data).raised
    /\ ( /\ load_ret # NoResult
         /\ \/ ~checkpoint_file.exists
            \/ /\ ReadJson(checkpoint_file).err # "none"
               /\ ~backup_file.exists \/ ReadJson(backup_file).err # "none" ) =>
            load_ret = ZeroState

C4_Witness ==
    /\ load_ret = ZeroState
    /\ checkpoint_file.exists
    /\ ReadJson(checkpoint_file).err = "JSONDecodeError"
    /\ backup_file.exists
    /\ ReadJson(backup_file).err # "none"

\* The number of rows of an id in a sink.
RowsOf(rows, id) ==
    Cardinality({i \in DOMAIN rows : rows[i][Len(column_order)] = ToString(id)})

\* No sink holds more rows of the id than it held when the previous process ended.
NoFurtherRows(id) ==
    /\ RowsOf(csv_file.rows, id) <= RowsOf(prev.csv, id)
    /\ RowsOf(excel_file.rows, id) <= RowsOf(prev.xlsx, id)

\* C5 (amended): after a first run that completed normally and whose final save
\* returned True, the second run fetches no id the first run completed, keeps
\* every such id in completed_ids, adds to completed_ids only ids it fetched
\* itself, and appends no further row for an id the first run completed.
C5_IdempotentRerun ==
    (prev # NoResult /\ prev.normal) =>
        /\ fetched \cap prev.completed = {}
        /\ prev.completed \subseteq SeqToSet(completed_ids)
        /\ SeqToSet(completed_ids) \subseteq prev.completed \cup fetched
        /\ \A id \in prev.completed : NoFurtherRows(id)

C5_Witness ==
    /\ prev # NoResult
    /\ prev.normal
    /\ run_pc = "exited"
    /\ exc = "none"
    /\ prev.completed # {}
    /\ fetched # {}
    /\ prev.csv # <<>>
    /\ SeqToSet(completed_ids) # prev.completed

\* C5 (as stated): the second run fetches no id the first run completed, ends
\* with the same completed_ids and appends no further row for such an id.
C5_SameCompletedIds ==
    (prev # NoResult /\ prev.normal /\ run_pc = "exited" /\ exc = "none") =>
        /\ fetched \cap prev.completed = {}
        /\ SeqToSet(completed_ids) = prev.completed
        /\ \A id \in prev.completed : NoFurtherRows(id)

\* C6: whenever a process has ended (killed, interrupted or exited), every id in
\* the completed_ids of the persisted checkpoint has all its rows in both sinks.
C6_CompletedAreDurable ==
    LET r == ReadJson(checkpoint_file)
    IN  (run_pc \in {"crashed", "exited"} /\ checkpoint_file.exists /\ r.err = "none") =>
            \A id \in SeqToSet(r.val.completed_ids) :
                \A u \in DOMAIN ItemRows(id) :
                    /\ csv_rows(ItemRows(id))[u] \in SeqToSet(csv_file.rows)
                    /\ excel_rows(ItemRows(id))[u] \in SeqToSet(excel_file.rows)

\* C7: on every exit from scrape_all, finalize() has been called and save(...,
\* force=True) has been called after it.
C7_FinalizeThenSave ==
    run_pc = "exited" =>
        \E i, j \in DOMAIN events :
            i < j /\ events[i] = "finalize" /\ events[j] = "save"

\* C9: when add_data raises inside the loop, the exception leaves the loop and
\* the id is not left both in completed_ids and in the skip ledger.
C9_FlushFailurePropagates ==
    \A id \in flush_raised :
        /\ exc = "Exception"
        /\ ~(id \in SeqToSet(completed_ids) /\ id \in LedgerIds(skipped_items))

\* The completed_ids of the checkpoint file on disk.
PersistedCompleted ==
    LET r == ReadJson(checkpoint_file)
    IN  IF checkpoint_file.exists /\ r.err = "none"
        THEN SeqToSet(r.val.completed_ids) ELSE {}

\* C15: save() never raises.  A step that ends a save() call (other than a kill)
\* returns to the caller with True or False; with False the caller's lists, the
\* manager's data and the primary file are as before; with True the primary file
\* holds the new document.
C15_SaveNeverRaises ==
    [][(pc \in {"save_backup", "save_write", "save_replace"} /\ pc' \notin {pc, "crashed"}) =>
            \/ /\ pc' \in {"save_write", "save_replace"}
               /\ save_ret' = "pending"
               /\ checkpoint_file' = checkpoint_file
            \/ /\ pc' = "idle"
               /\ save_ret' \in {"True", "False"}
               /\ completed_ids' = completed_ids
               /\ scraped_data' = scraped_data
               /\ (save_ret' = "False") =>
                       (checkpoint_file' = checkpoint_file /\ data' = data)
               /\ (save_ret' = "True") =>
                       (checkpoint_file' = File(JsonDump(CurrentData)))]_vars

C15_Witness ==
    /\ pc = "idle"
    /\ save_ret = "False"
    /\ checkpoint_file.exists
    /\ ~corrupted
    /\ SeqToSet(completed_ids) # PersistedCompleted

\* C16: a save() whose copy of the primary file to the .bak path fails still
\* goes on: it does not end in the backup step.
C16_BackupFailureDoesNotBlock ==
    [][(pc = "save_backup" /\ pc' # "crashed") => pc' = "save_write"]_vars

\* C13: for every id the loop has processed: if scrape_item yielded rows, the
\* rows were handed to the writer, the id is in completed_ids and no ledger
\* entry was written for it; if it yielded none, the id is not in
\* completed_ids and the ledger holds an entry for it with reason "no_data".
C13_PerIdOutcome ==
    script = "main" =>
        \A id \in fetched :
            IF id \in yielded
            THEN /\ id \in SeqToSet(completed_ids)
                 /\ \A u \in DOMAIN ItemRows(id) :
                        \/ ItemRows(id)[u] \in SeqToSet(pending_data)
                        \/ csv_rows(ItemRows(id))[u] \in SeqToSet(csv_file.rows)
                 /\ id \notin SeqToSet(skipped_ids)
            ELSE /\ id \notin SeqToSet(completed_ids)
                 /\ \E i \in DOMAIN skipped_items :
                        /\ skipped_items[i].food_id = id
                        /\ skipped_items[i].reason = "no_data"

\* C14: in every checkpoint a save has persisted, completed_ids holds no id
\* twice and is exactly the set of the food_id values of the persisted records.
C14_CompletedMatchesRecords ==
    LET r == ReadJson(checkpoint_file)
    IN  (checkpoint_file.exists /\ r.err = "none") =>
            /\ \A i, j \in DOMAIN r.val.completed_ids :
                    r.val.completed_ids[i] = r.val.completed_ids[j] => i = j
            /\ SeqToSet(r.val.completed_ids) =
                    {r.val.data[i].food_id : i \in DOMAIN r.val.data}

(***************************************************************************)
(* Claims about the retry entry points.                                    *)
(***************************************************************************)
\* C11: after a retry run without any disk failure, an id whose retry yielded
\* rows has no ledger entry and is in the persisted completed_ids.
C11_RetrySuccess ==
    (script \in Scripts /\ run_pc = "exited" /\ faults = 0) =>
        \A id \in yielded :
            /\ id \notin LedgerIds(skipped_items)
            /\ id \notin LedgerIds(log_file.items)
            /\ id \in PersistedCompleted

\* C12: after a retry run without any disk failure, an id whose retry yielded no
\* rows has exactly one ledger entry, and its reason is "retry_failed".
C12_RetryFailure ==
    (script \in Scripts /\ run_pc = "exited" /\ faults = 0) =>
        \A id \in fetched \ yielded :
            /\ Cardinality({i \in DOMAIN skipped_items : skipped_items[i].food_id = id}) = 1
            /\ \A i \in DOMAIN skipped_items :
                    skipped_items[i].food_id = id => skipped_items[i].reason = "retry_failed"

(***************************************************************************)
(* Claims about the writer and the skip ledger.                            *)
(***************************************************************************)
\* The last call wrote its whole buffer to both sinks.
Flushed == wr_last # NoResult /\ ~wr_last.raised /\ wr_last.buffer # <<>> /\ pending_data = <<>>

\* The rows a sink holds for the buffer of the last call: its last rows.
LastRows(rows) ==
    LET n == Len(wr_last.buffer)
    IN  [i \in 1..n |-> rows[Len(rows) - n + i]]

\* Row `cells` shows record r in the fixed columns: a field the record carries
\* as it is, a missing numeric field as 0.0, a missing text field as "".
ShowsRecord(cells, r) ==
    /\ Len(cells) = Len(column_order)
    /\ \A c \in DOMAIN column_order :
            LET col == column_order[c]
            IN  IF col \in DOMAIN r THEN cells[c] = Cell(r, col)
                ELSE /\ col \in numeric_fields => cells[c] = ZeroCell
                     /\ col \in text_fields => cells[c] = EmptyCell

\* C17: after every flush both sinks show each record of the flushed batch in
\* the fixed 11 columns, a missing numeric field as 0.0 and a missing text field
\* as the empty string, whatever the key sets of the other records.
C17_ColumnStability ==
    Flushed =>
        \A i \in DOMAIN wr_last.buffer :
            /\ ShowsRecord(LastRows(csv_file.rows)[i], wr_last.buffer[i])
            /\ ShowsRecord(LastRows(excel_file.rows)[i], wr_last.buffer[i])

\* Sequence a is the beginning of sequence b.
IsPrefix(a, b) == Len(a) <= Len(b) /\ SubSeq(b, 1, Len(a)) = a

\* C18: every step of the writer keeps the data rows both sinks held before it,
\* unchanged and in the same order, with the new rows after them; also a step
\* in which the existing workbook cannot be opened.
C18_FlushPreservesRows ==
    [][/\ IsPrefix(csv_file.rows, csv_file'.rows)
       /\ IsPrefix(excel_file.rows, excel_file'.rows)]_vars

\* C19: whenever the writing process has been killed, the file at the workbook
\* path, if there is one, is a complete workbook.
C19_WorkbookNeverCorrupt ==
    (wr_pc = "killed" /\ excel_file.exists) => excel_whole

\* C20: after an add_data call that returned normally the buffer holds fewer
\* than batch_size records: the records it held before followed by the given
\* ones when those are fewer than batch_size, and otherwise none, all of them
\* being the last rows of both sinks; after a flush that returned normally the
\* buffer is empty.
C20_BufferBelowBatchSize ==
    (wr_last # NoResult /\ ~wr_last.raised) =>
        /\ wr_last.op = "add_data" =>
                /\ Len(pending_data) < batch_size
                /\ IF Len(wr_last.buffer) < batch_size
                   THEN pending_data = wr_last.buffer
                   ELSE /\ pending_data = <<>>
                        /\ LastRows(csv_file.rows) = csv_rows(wr_last.buffer)
                        /\ LastRows(excel_file.rows) = excel_rows(wr_last.buffer)
        /\ wr_last.op = "flush" => pending_data = <<>>

C20_Witness ==
    /\ wr_last # NoResult
    /\ wr_last.op = "add_data"
    /\ ~wr_last.raised
    /\ Len(wr_last.buffer) > batch_size
    /\ pending_data = <<>>
    /\ Len(csv_file.rows) > Len(wr_last.buffer)

\* C21: no two tasks that run at the same time use the same browser page.
C21_PagePrivate ==
    \A t1, t2 \in in_flight : t1.page = t2.page => t1 = t2

\* The objects the orchestrator and the workers share: the writer with its
\* sinks, the checkpoint manager with its files, and the ledger with its file.
SharedObjects ==
    <<pending_data, csv_file, excel_file, csv_exists, excel_exists,
      checkpoint_file, backup_file, temp_file, data, skipped_items, log_file>>

\* C22: a step in which a worker task starts or returns makes no call on the
\* writer, the checkpoint manager or the ledger: these are changed only by the
\* steps of the orchestrator's loop, one call at a time.
C22_SingleWriter ==
    [][in_flight' # in_flight => SharedObjects' = SharedObjects]_vars

\* A task is running while the orchestrator has already handed rows to the writer.
C22_Witness ==
    /\ in_flight # {}
    /\ completed # <<>>
    /\ pending_data # <<>> \/ csv_file.exists

\* A nutrient value from which no number can be read.
NotNumeric(v) == v.t = "str" /\ v.v # <<>> /\ ~IsFloatLiteral(numeric_str(v.v))

\* The raw row has a defect for which the validation stage drops a record.
DropCondition(row) ==
    \/ \E f \in REQUIRED_FIELDS :
            f \notin DOMAIN row \/ row[f] = NoneValue \/ IsEmptyStr(row[f])
    \/ \E f \in (NUMERIC_FIELDS \ {"measurement_value"}) \cap DOMAIN row :
            \/ NotNumeric(row[f])
            \/ row[f].t = "float" /\ Negative(row[f])
            \/ row[f].t = "str" /\ IsFloatLiteral(numeric_str(row[f].v))
                                /\ Head(numeric_str(row[f].v)) = "-"

\* Sequence a is sequence b with some elements left out.
RECURSIVE IsSubSeq(_, _)
IsSubSeq(a, b) ==
    IF a = <<>> THEN TRUE
    ELSE IF b = <<>> THEN FALSE
    ELSE IF Head(a) = Head(b) THEN IsSubSeq(Tail(a), Tail(b))
    ELSE IsSubSeq(a, Tail(b))

\* C23: no raw row with a missing or empty required field, a nutrient value
\* that is not numeric or a negative nutrient value is among the rows
\* process_batch returns, and the returned rows are cleaned rows of the batch in
\* input order.
C23_InvalidDropped ==
    (script = "main" /\ run_pc = "exited") =>
        /\ \A i \in DOMAIN raw_rows :
                DropCondition(raw_rows[i]) =>
                    clean_data(raw_rows[i]) \notin SeqToSet(processed)
        /\ IsSubSeq(processed, [i \in DOMAIN raw_rows |-> clean_data(raw_rows[i])])

\* C24: in every row process_batch returns, each numeric field is None or a
\* float that is not negative.
C24_NumericFields ==
    (script = "main" /\ run_pc = "exited") =>
        \A i \in DOMAIN processed :
            \A f \in NUMERIC_FIELDS \cap DOMAIN processed[i] :
                \/ processed[i][f] = NoneValue
                \/ processed[i][f].t = "float" /\ ~Negative(processed[i][f])

\* C25: in a process started without --resume every id of the requested range
\* is fetched or still to be fetched once the loop has started: none is skipped
\* because of a checkpoint file.
C25_FreshWithoutResume ==
    (script = "main" /\ ~resume /\ run_pc # "init") =>
        SeqToSet(IdRange) \subseteq fetched \cup SeqToSet(food_ids_to_scrape)

\* C26: in a first run without disk failures every save call succeeds, so the
\* ids completed since the last save call are those missing from the checkpoint
\* file.  After every iteration of the loop fewer than checkpoint_frequency ids
\* have completed since the last save: save was called when the
\* checkpoint_frequency-th of them completed.
C26_PeriodicCheckpoint ==
    (script = "main" /\ faults = 0 /\ prev = NoResult /\ run_pc = "loop") =>
        Len(completed_ids) - Cardinality(PersistedCompleted) < checkpoint_frequency

\* C27: an exception raised while one id is processed is recorded in the ledger with
\* reason "exception" and the loop goes on; while the ledger can be written and
\* nobody interrupts, the loop ends, and every id of the input is then in
\* completed_ids or in the ledger.
ExceptionRecorded ==
    \A id \in flush_raised :
        \E i \in DOMAIN skipped_items :
            skipped_items[i].food_id = id /\ skipped_items[i].reason = "exception"

LoopEndedUndisturbed ==
    /\ script = "main"
    /\ ~lg_failed
    /\ run_pc \in {"finalize", "finally", "exited"}
    /\ exc # "KeyboardInterrupt"

WorkbookWriteRaised ==
    /\ wr_last # NoResult
    /\ wr_last.raised
    /\ wr_last.fail \in {"excel_load", "excel_save"}
    /\ pending_data = wr_last.buffer

C28_CsvExactlyOnce ==
    [][(/\ WorkbookWriteRaised
        /\ wr_last' # NoResult
        /\ wr_last'.op \in {"flush", "finalize"})
       => csv_file'.rows = csv_file.rows]_vars

\* C29: the persisted checkpoint never shrinks: whenever a save replaces a valid
\* checkpoint file, the one a scraper was constructed from included, the new
\* document's completed_ids contain the old ones and its records start with the
\* old records.
C29_CheckpointNeverShrinks ==
    [][(/\ checkpoint_file.exists
        /\ ReadJson(checkpoint_file).err = "none"
        /\ checkpoint_file' # checkpoint_file
        /\ ReadJson(checkpoint_file').err = "none")
       => LET old == ReadJson(checkpoint_file).val
              new == ReadJson(checkpoint_file').val
          IN  /\ SeqToSet(old.completed_ids) \subseteq SeqToSet(new.completed_ids)
              /\ IsPrefix(old.data, new.data)]_vars

\* C30: a save never destroys the last loadable generation: no step of the program
\* (a step of save, a crash during it, a restart) takes the files from a state
\* where the primary or the .bak file parses to one where neither does; the one
\* external corruption of the primary is the only step exempt.
Parseable(f) == f.exists /\ ReadJson(f).err = "none"

C30_SaveKeepsLoadable ==
    [][(/\ corrupted' = corrupted
        /\ Parseable(checkpoint_file) \/ Parseable(backup_file))
       => (Parseable(checkpoint_file') \/ Parseable(backup_file'))]_vars

\* C8: a failing sink write inside flush() raises to the caller of flush(),
\* add_data() or finalize() and leaves the pending buffer as it was, same
\* records in the same order.
C8_BufferRetained ==
    (wr_last # NoResult /\ wr_last.failed) =>
        /\ wr_last.raised
        /\ pending_data = wr_last.buffer

C8_Witness ==
    /\ wr_last # NoResult
    /\ wr_last.op = "add_data"
    /\ wr_last.fail = "excel_save"
    /\ wr_last.failed
    /\ Len(pending_data) > batch_size
    /\ csv_file.exists

\* C10: the ledger holds at most one entry per food_id, and the entry of an
\* id is the one built from the most recent log_skipped call for that id.
C10_Upsert ==
    /\ \A i, j \in DOMAIN skipped_items :
            skipped_items[i].food_id = skipped_items[j].food_id => i = j
    /\ \A i, j \in DOMAIN log_file.items :
            log_file.items[i].food_id = log_file.items[j].food_id => i = j
    /\ \A i \in DOMAIN skipped_items :
            lg_last[skipped_items[i].food_id] # NoResult =>
                skipped_items[i] = lg_last[skipped_items[i].food_id]

C10_Witness ==
    \E i \in DOMAIN skipped_items :
        /\ i < Len(skipped_items)
        /\ lg_replaced
        /\ lg_last[skipped_items[i].food_id] # NoResult
        /\ skipped_items[i].reason = "retry_failed"
        /\ log_file.items = skipped_items

====
